---- MODULE Spec2Model ----
(***************************************************************************)
(* Verification model of solana_actions_core: the ActionRegistry           *)
(* (actions.rs), the Agent's transfer / get_balance (agent.rs), the        *)
(* KeypairWallet (wallet.rs) and the 61 operations register_all_actions    *)
(* registers (token_actions.rs, defi_actions.rs, nft_actions.rs,           *)
(* misc_actions.rs).                                                       *)
(***************************************************************************)
EXTENDS Integers, Sequences, FiniteSets, TLC

(***************************************************************************)
(* Arbitrary-precision naturals.  TLC integers are 32 bits wide, while the *)
(* code computes with u64 and with f64 (53-bit significands), so naturals  *)
(* are little-endian sequences of 15-bit limbs without leading zero limbs; *)
(* <<>> is zero.                                                           *)
(***************************************************************************)
LimbBase == 2^15

RECURSIVE BigNorm(_)
BigNorm(b) ==
  IF b = <<>> THEN <<>>
  ELSE IF b[Len(b)] = 0 THEN BigNorm(SubSeq(b, 1, Len(b) - 1))
  ELSE b

RECURSIVE BigFromNat(_)
BigFromNat(n) ==
  IF n = 0 THEN <<>>
  ELSE <<n % LimbBase>> \o BigFromNat(n \div LimbBase)

RECURSIVE BigMulAdd(_, _, _)
\* b * k + c for small k, c
BigMulAdd(b, k, c) ==
  IF b = <<>> THEN BigFromNat(c)
  ELSE LET t == Head(b) * k + c
       IN  <<t % LimbBase>> \o BigMulAdd(Tail(b), k, t \div LimbBase)

BigMulSmall(b, k) == BigNorm(BigMulAdd(b, k, 0))

RECURSIVE BigDivRemRaw(_, _)
\* quotient (not normalised) and remainder of b / k for small k
BigDivRemRaw(b, k) ==
  IF b = <<>> THEN [q |-> <<>>, r |-> 0]
  ELSE LET hi == BigDivRemRaw(Tail(b), k)
           t  == hi.r * LimbBase + Head(b)
       IN  [q |-> <<t \div k>> \o hi.q, r |-> t % k]

BigDivRem(b, k) ==
  LET d == BigDivRemRaw(b, k) IN [q |-> BigNorm(d.q), r |-> d.r]

RECURSIVE BigCmpEq(_, _)
\* comparison of two naturals with the same number of limbs: -1, 0, 1
BigCmpEq(a, b) ==
  IF a = <<>> THEN 0
  ELSE LET c == BigCmpEq(Tail(a), Tail(b))
       IN  IF c # 0 THEN c
           ELSE IF Head(a) < Head(b) THEN -1
           ELSE IF Head(a) > Head(b) THEN 1
           ELSE 0

BigCmp(a, b) ==
  IF Len(a) < Len(b) THEN -1
  ELSE IF Len(a) > Len(b) THEN 1
  ELSE BigCmpEq(a, b)

BigLt(a, b) == BigCmp(a, b) = -1
BigLe(a, b) == BigCmp(a, b) # 1

RECURSIVE BigAddC(_, _, _)
BigAddC(a, b, c) ==
  IF a = <<>> /\ b = <<>> THEN BigFromNat(c)
  ELSE LET x == IF a = <<>> THEN 0 ELSE Head(a)
           y == IF b = <<>> THEN 0 ELSE Head(b)
           t == x + y + c
       IN  <<t % LimbBase>>
             \o BigAddC(IF a = <<>> THEN <<>> ELSE Tail(a),
                        IF b = <<>> THEN <<>> ELSE Tail(b), t \div LimbBase)

BigAdd(a, b) == BigNorm(BigAddC(a, b, 0))

RECURSIVE BigSubB(_, _, _)
\* a - b - borrow, for a >= b + borrow
BigSubB(a, b, bw) ==
  IF a = <<>> THEN <<>>
  ELSE LET y == IF b = <<>> THEN 0 ELSE Head(b)
           t == Head(a) - y - bw
       IN  <<IF t < 0 THEN t + LimbBase ELSE t>>
             \o BigSubB(Tail(a), IF b = <<>> THEN <<>> ELSE Tail(b),
                        IF t < 0 THEN 1 ELSE 0)

BigSub(a, b) == BigNorm(BigSubB(a, b, 0))

BigAbsDiff(a, b) == IF BigLt(a, b) THEN BigSub(b, a) ELSE BigSub(a, b)

RECURSIVE ZeroLimbs(_)
ZeroLimbs(n) == IF n = 0 THEN <<>> ELSE <<0>> \o ZeroLimbs(n - 1)

\* b * 2^s
BigShl(b, s) ==
  IF b = <<>> THEN <<>>
  ELSE ZeroLimbs(s \div 15) \o BigMulSmall(b, 2^(s % 15))

\* floor(b / 2^s)
BigShr(b, s) ==
  IF s \div 15 >= Len(b) THEN <<>>
  ELSE BigDivRem(SubSeq(b, (s \div 15) + 1, Len(b)), 2^(s % 15)).q

RECURSIVE SmallBitLen(_)
SmallBitLen(n) == IF n = 0 THEN 0 ELSE 1 + SmallBitLen(n \div 2)

BigBitLen(b) ==
  IF b = <<>> THEN 0 ELSE 15 * (Len(b) - 1) + SmallBitLen(b[Len(b)])

BigIsOdd(b) == b # <<>> /\ Head(b) % 2 = 1

RECURSIVE BigMulPow10(_, _)
\* b * 10^d, four decimal digits at a time
BigMulPow10(b, d) ==
  IF d = 0 THEN b
  ELSE IF d < 4 THEN BigMulSmall(b, 10^d)
  ELSE BigMulSmall(BigMulPow10(b, d - 4), 10000)

RECURSIVE BigDivPow10(_, _)
\* floor(b / 10^d), and whether the division left a remainder
BigDivPow10(b, d) ==
  IF d = 0 THEN [q |-> b, inexact |-> FALSE]
  ELSE IF d < 4
       THEN LET x == BigDivRem(b, 10^d) IN [q |-> x.q, inexact |-> x.r # 0]
  ELSE LET y == BigDivPow10(b, d - 4)
           x == BigDivRem(y.q, 10000)
       IN  [q |-> x.q, inexact |-> y.inexact \/ x.r # 0]

BigOne == <<1>>

(***************************************************************************)
(* f64 values.  A finite value is (-1)^neg * m * 2^e with m < 2^53 held    *)
(* exactly; arithmetic rounds to nearest, ties to even, as IEEE-754        *)
(* binary64 does, results below 2^-1022 included.                          *)
(***************************************************************************)
F64Fin(neg, m, e) == [cls |-> "fin", neg |-> neg, m |-> m, e |-> e]
F64NaN == [cls |-> "nan", neg |-> FALSE, m |-> <<>>, e |-> 0]
F64Inf(neg) == [cls |-> "inf", neg |-> neg, m |-> <<>>, e |-> 0]
F64Zero == F64Fin(FALSE, <<>>, 0)

\* the f64 nearest to (-1)^neg * (N + fraction) * 2^e, where sticky tells
\* that a non-zero fraction below N's last bit was dropped; s is the number
\* of low bits that do not fit: those beyond 53, or those below 2^-1074
RoundF64(neg, N, sticky, e) ==
  IF N = <<>> THEN F64Fin(neg, <<>>, 0)
  ELSE LET s0 == BigBitLen(N) - 53
           s1 == (0 - 1074) - e
           s  == IF s0 >= s1 THEN s0 ELSE s1
       IN  IF s <= 0
           THEN IF BigBitLen(N) + e > 1024 THEN F64Inf(neg)
                ELSE F64Fin(neg, N, e)
           ELSE LET q    == BigShr(N, s)
                    rem  == BigSub(N, BigShl(q, s))
                    half == BigShl(BigOne, s - 1)
                    c    == BigCmp(rem, half)
                    up   == c = 1 \/ (c = 0 /\ (sticky \/ BigIsOdd(q)))
                    m    == IF up THEN BigAdd(q, BigOne) ELSE q
                IN  IF m = <<>> THEN F64Fin(neg, <<>>, 0)
                    ELSE IF BigBitLen(m) + e + s > 1024 THEN F64Inf(neg)
                    ELSE F64Fin(neg, m, e + s)

\* a * 10f64.powi(d) and a * (LAMPORTS_PER_SOL as f64): 10^d is an exact
\* f64 for d <= 22, so the product is the exact product rounded once
F64MulPow10(a, d) ==
  IF a.cls # "fin" THEN a
  ELSE RoundF64(a.neg, BigMulPow10(a.m, d), FALSE, a.e)

\* a / 10^d, rounded once
F64DivPow10(a, d) ==
  IF a.cls # "fin" THEN a
  ELSE LET t == 55 + 4 * d
           x == BigDivPow10(BigShl(a.m, t), d)
       IN  RoundF64(a.neg, x.q, x.inexact, a.e - t)

U64Max == BigSub(BigShl(BigOne, 64), BigOne)

\* a faulty cast: the integer part is reduced modulo 2^64
AsU64_wrapping(f) ==
  IF f.cls # "fin" \/ f.neg THEN <<>>
  ELSE IF f.e >= 0
       THEN LET n == BigShl(f.m, f.e)
            IN  BigSub(n, BigShl(BigShr(n, 64), 64))
       ELSE BigShr(f.m, 0 - f.e)

\* Rust's `x as u64` for an f64: truncates toward zero and saturates;
\* NaN and every negative value give 0
AsU64(f) ==
  IF f.cls = "nan" THEN <<>>
  ELSE IF f.neg THEN <<>>
  ELSE IF f.cls = "inf" THEN U64Max
  ELSE IF f.e >= 0
       THEN IF BigBitLen(f.m) + f.e > 64 THEN U64Max ELSE BigShl(f.m, f.e)
       ELSE BigShr(f.m, 0 - f.e)

\* Rust's `n as f64` for a u64
U64AsF64(n) == RoundF64(FALSE, n, FALSE, 0)

F64One == F64Fin(FALSE, BigOne, 0)
F64Ten == F64Fin(FALSE, <<10>>, 0)

RECURSIVE BigMul(_, _)
\* a * b
BigMul(a, b) ==
  IF a = <<>> \/ b = <<>> THEN <<>>
  ELSE BigAdd(BigMulSmall(a, Head(b)), BigShl(BigMul(a, Tail(b)), 15))

RECURSIVE QuotLimb(_, _, _, _)
\* the largest x in lo..(hi - 1) with d * x <= c, where d * lo <= c
QuotLimb(c, d, lo, hi) ==
  IF hi - lo <= 1 THEN lo
  ELSE LET mid == (lo + hi) \div 2
       IN  IF BigLe(BigMulSmall(d, mid), c) THEN QuotLimb(c, d, mid, hi)
           ELSE QuotLimb(c, d, lo, mid)

RECURSIVE BigDiv(_, _)
\* quotient and remainder of n / d for d # 0: long division, one limb of n
\* at a time
BigDiv(n, d) ==
  IF n = <<>> THEN [q |-> <<>>, r |-> <<>>]
  ELSE LET hi == BigDiv(Tail(n), d)
           c  == BigNorm(<<Head(n)>> \o hi.r)
           x  == QuotLimb(c, d, 0, LimbBase)
       IN  IF hi.r = <<>> /\ Head(n) = 0
           THEN [q |-> BigNorm(<<0>> \o hi.q), r |-> <<>>]
           ELSE [q |-> BigNorm(<<x>> \o hi.q),
                 r |-> BigSub(c, BigMulSmall(d, x))]

\* a * b
F64Mul(a, b) ==
  IF a.cls = "nan" \/ b.cls = "nan" THEN F64NaN
  ELSE IF a.cls = "inf" \/ b.cls = "inf"
       THEN IF (a.cls = "fin" /\ a.m = <<>>) \/ (b.cls = "fin" /\ b.m = <<>>)
            THEN F64NaN
            ELSE F64Inf(a.neg # b.neg)
  ELSE RoundF64(a.neg # b.neg, BigMul(a.m, b.m), FALSE, a.e + b.e)

\* a / b
F64Div(a, b) ==
  IF a.cls = "nan" \/ b.cls = "nan" THEN F64NaN
  ELSE IF a.cls = "inf"
       THEN IF b.cls = "inf" THEN F64NaN ELSE F64Inf(a.neg # b.neg)
  ELSE IF b.cls = "inf" THEN F64Fin(a.neg # b.neg, <<>>, 0)
  ELSE IF b.m = <<>>
       THEN IF a.m = <<>> THEN F64NaN ELSE F64Inf(a.neg # b.neg)
  ELSE LET t == 55 + BigBitLen(b.m)
           x == BigDiv(BigShl(a.m, t), b.m)
       IN  RoundF64(a.neg # b.neg, x.q, x.r # <<>>, (a.e - t) - b.e)

RECURSIVE PowiLoop(_, _, _)
\* the loop of f64::powi: square and multiply over the bits of pow
PowiLoop(a, pow, mul) ==
  IF pow \div 2 = 0
  THEN (IF pow % 2 = 1 THEN F64Mul(mul, a) ELSE mul)
  ELSE PowiLoop(F64Mul(a, a), pow \div 2,
                IF pow % 2 = 1 THEN F64Mul(mul, a) ELSE mul)

\* a.powi(n): the product for |n|, and its reciprocal for a negative n
F64Powi(a, n) ==
  IF n < 0 THEN F64Div(F64One, PowiLoop(a, 0 - n, F64One))
  ELSE PowiLoop(a, n, F64One)

(***************************************************************************)
(* Decimal text.  A string the code reads character by character is held   *)
(* as the sequence of its characters; the text the code writes is a        *)
(* string.                                                                 *)
(***************************************************************************)
DigitChars == <<"0", "1", "2", "3", "4", "5", "6", "7", "8", "9">>
IsDigit(c) == \E d \in 1..10 : DigitChars[d] = c
DigitValue(c) == (CHOOSE d \in 1..10 : DigitChars[d] = c) - 1

RECURSIVE DigitRun(_)
\* the length of the longest prefix of s made of digits
DigitRun(s) ==
  IF s = <<>> \/ ~IsDigit(Head(s)) THEN 0 ELSE 1 + DigitRun(Tail(s))

RECURSIVE BigFromDigits(_)
\* the natural the digits spell
BigFromDigits(s) ==
  IF s = <<>> THEN <<>>
  ELSE BigNorm(BigMulAdd(BigFromDigits(SubSeq(s, 1, Len(s) - 1)), 10,
                         DigitValue(s[Len(s)])))

RECURSIVE SmallFromDigits(_)
\* the number the digits spell, saturating
SmallFromDigits(s) ==
  IF s = <<>> THEN 0
  ELSE LET hi == SmallFromDigits(SubSeq(s, 1, Len(s) - 1))
       IN  IF hi >= 100000 THEN hi ELSE hi * 10 + DigitValue(s[Len(s)])

DropChars(s, n) == SubSeq(s, n + 1, Len(s))

UpperLetters ==
  <<"A", "B", "C", "D", "E", "F", "G", "H", "I", "J", "K", "L", "M", "N",
    "O", "P", "Q", "R", "S", "T", "U", "V", "W", "X", "Y", "Z">>
LowerLetters ==
  <<"a", "b", "c", "d", "e", "f", "g", "h", "i", "j", "k", "l", "m", "n",
    "o", "p", "q", "r", "s", "t", "u", "v", "w", "x", "y", "z">>

LowerChar(c) ==
  IF \E k \in 1..26 : UpperLetters[k] = c
  THEN LowerLetters[CHOOSE k \in 1..26 : UpperLetters[k] = c]
  ELSE c

\* str::to_lowercase, for the characters of ASCII
to_lowercase(chars) == [k \in 1..Len(chars) |-> LowerChar(chars[k])]

RECURSIVE CharsText(_)
\* the string a sequence of characters spells
CharsText(chars) ==
  IF chars = <<>> THEN "" ELSE Head(chars) \o CharsText(Tail(chars))

\* the f64 nearest to D * 10^k, D a natural of n digits
DecimalToF64(neg, D, k, n) ==
  IF D = <<>> THEN F64Fin(neg, <<>>, 0)
  ELSE IF k > 310 THEN F64Inf(neg)
  ELSE IF k + n < 0 - 330 THEN F64Fin(neg, <<>>, 0)
  ELSE IF k >= 0 THEN RoundF64(neg, BigMulPow10(D, k), FALSE, 0)
  ELSE F64DivPow10(F64Fin(neg, D, 0), 0 - k)

\* the end of the number: `digits` are the integer and fraction digits, nf
\* of them after the point; s5 is the text after the exponent's sign and ne
\* the length of its digit run
ParseExponentDigits(neg, digits, nf, hasE, eneg, s5, ne) ==
  IF digits = <<>> \/ (hasE /\ ne = 0) \/ DropChars(s5, ne) # <<>>
  THEN [ok |-> FALSE, value |-> F64Zero]
  ELSE [ok |-> TRUE,
        value |-> DecimalToF64(neg, BigFromDigits(digits),
                    (IF eneg THEN 0 - SmallFromDigits(SubSeq(s5, 1, ne))
                     ELSE SmallFromDigits(SubSeq(s5, 1, ne))) - nf,
                    Len(digits))]

\* the exponent: s4 is the text after the letter e
ParseExponentSign(neg, digits, nf, s4) ==
  IF s4 # <<>> /\ Head(s4) \in {"+", "-"}
  THEN ParseExponentDigits(neg, digits, nf, TRUE, Head(s4) = "-", Tail(s4),
                           DigitRun(Tail(s4)))
  ELSE ParseExponentDigits(neg, digits, nf, TRUE, FALSE, s4, DigitRun(s4))

\* after the fraction: s3 is the text after its nf digits
ParseExponent(neg, digits, nf, s3) ==
  IF s3 # <<>> /\ Head(s3) \in {"e", "E"}
  THEN ParseExponentSign(neg, digits, nf, Tail(s3))
  ELSE ParseExponentDigits(neg, digits, nf, FALSE, FALSE, s3, 0)

\* the fraction: s2 is the text after the point and nf the length of its
\* digit run
ParseFractionDigits(neg, int, s2, nf) ==
  ParseExponent(neg, int \o SubSeq(s2, 1, nf), nf, DropChars(s2, nf))

\* after the integer digits `int`: s1 is the text after them
ParseFraction(neg, int, s1) ==
  IF s1 # <<>> /\ Head(s1) = "."
  THEN ParseFractionDigits(neg, int, Tail(s1), DigitRun(Tail(s1)))
  ELSE ParseExponent(neg, int, 0, s1)

\* the number after the sign: ni is the length of its first digit run
ParseDecimal(neg, s, ni) ==
  ParseFraction(neg, SubSeq(s, 1, ni), DropChars(s, ni))

\* the text after the sign
ParseUnsigned(neg, s, low) ==
  IF s = <<>> THEN [ok |-> FALSE, value |-> F64Zero]
  ELSE IF low \in {<<"i", "n", "f">>,
                   <<"i", "n", "f", "i", "n", "i", "t", "y">>}
  THEN [ok |-> TRUE, value |-> F64Inf(neg)]
  ELSE IF low = <<"n", "a", "n">> THEN [ok |-> TRUE, value |-> F64NaN]
  ELSE ParseDecimal(neg, s, DigitRun(s))

ParseSigned(neg, s) == ParseUnsigned(neg, s, to_lowercase(s))

\* <f64 as FromStr>::from_str: an optional sign, then inf, infinity or nan
\* in any case, or digits with an optional fraction and an optional
\* exponent, at least one digit in all; the value is the nearest f64
ParseF64(chars) ==
  IF chars # <<>> /\ Head(chars) \in {"+", "-"}
  THEN ParseSigned(Head(chars) = "-", Tail(chars))
  ELSE ParseSigned(FALSE, chars)

RECURSIVE DigitsText(_)
\* the text of a sequence of digits
DigitsText(ds) ==
  IF ds = <<>> THEN "" ELSE DigitChars[Head(ds) + 1] \o DigitsText(Tail(ds))

RECURSIVE ZerosText(_)
ZerosText(n) == IF n <= 0 THEN "" ELSE "0" \o ZerosText(n - 1)

RECURSIVE BigDigits(_)
\* the decimal digits of a natural, the most significant first, four at a
\* time
BigDigits(b) ==
  IF b = <<>> THEN <<>>
  ELSE LET x  == BigDivRem(b, 10000)
           lo == <<x.r \div 1000, (x.r \div 100) % 10, (x.r \div 10) % 10,
                   x.r % 10>>
       IN  IF x.q = <<>>
           THEN SubSeq(lo, 1 + Cardinality({k \in 1..3 : x.r < 10^(4 - k)}), 4)
           ELSE BigDigits(x.q) \o lo

RECURSIVE SmallQuot(_, _)
\* quotient and remainder of a / b by subtraction, for a quotient below ten
SmallQuot(a, b) ==
  IF BigLt(a, b) THEN [q |-> 0, r |-> a]
  ELSE LET x == SmallQuot(BigSub(a, b), b) IN [q |-> x.q + 1, r |-> x.r]

RECURSIVE RoundUpDigits(_)
\* digits plus one in the last place; carry tells that every digit was 9
RoundUpDigits(ds) ==
  IF ds = <<>> THEN [ds |-> <<>>, carry |-> TRUE]
  ELSE LET last == ds[Len(ds)]
           init == SubSeq(ds, 1, Len(ds) - 1)
       IN  IF last < 9 THEN [ds |-> Append(init, last + 1), carry |-> FALSE]
           ELSE LET x == RoundUpDigits(init)
                IN  [ds |-> Append(x.ds, 0), carry |-> x.carry]

\* flt2dec::decode of a finite non-zero f64: the significand doubled (or
\* quadrupled where the f64 below is half as far as the one above), the
\* distances to the midpoints with the neighbours, and whether the
\* midpoints round to this f64
DecodeF64(f) ==
  LET room == 53 - BigBitLen(f.m)
      deep == f.e + 1074
      sh   == IF room <= deep THEN room ELSE deep
      m    == BigShl(f.m, sh)
      e    == f.e - sh
      sub  == BigBitLen(m) < 53
      edge == ~sub /\ m = BigShl(BigOne, 52)
  IN  IF edge
      THEN [mant |-> BigShl(m, 2), minus |-> BigOne, plus |-> <<2>>,
            exp |-> e - 2, inclusive |-> TRUE]
      ELSE [mant |-> BigShl(m, 1), minus |-> BigOne, plus |-> BigOne,
            exp |-> e - 1, inclusive |-> sub \/ ~BigIsOdd(m)]

\* format_shortest, the estimate of k: whether high / S is below 10^k (at
\* most 10^k when the upper midpoint is outside the interval)
ShortestFits(high, S, inclusive, k) ==
  LET c == IF k >= 0 THEN BigCmp(high, BigMulPow10(S, k))
           ELSE BigCmp(BigMulPow10(high, 0 - k), S)
  IN  IF inclusive THEN c = -1 ELSE c # 1

RECURSIVE ShortestK(_, _, _, _)
\* format_shortest, the fixup of the estimate: the least k that fits
ShortestK(high, S, inclusive, k) ==
  IF ShortestFits(high, S, inclusive, k - 1)
  THEN ShortestK(high, S, inclusive, k - 1)
  ELSE IF ShortestFits(high, S, inclusive, k) THEN k
  ELSE ShortestK(high, S, inclusive, k + 1)

RECURSIVE ShortestGenerate(_, _, _, _, _, _, _)
\* format_shortest, one turn of the digit loop after the division x of the
\* remainder by the scale: stop when the digits so far are inside the
\* interval, rounding up when the rest is at least half a unit
ShortestDigit(x, minus, plus, scale, inclusive, k, ds) ==
  LET ds2  == Append(ds, x.q)
      cd   == BigCmp(x.r, minus)
      cu   == BigCmp(scale, BigAdd(x.r, plus))
      down == IF inclusive THEN cd # 1 ELSE cd = -1
      up   == IF inclusive THEN cu # 1 ELSE cu = -1
  IN  IF down \/ up
      THEN IF up /\ (~down \/ ~BigLt(BigMulSmall(x.r, 2), scale))
           THEN LET y == RoundUpDigits(ds2)
                IN  IF y.carry
                    THEN [digits |-> <<1>> \o y.ds, exp |-> k + 1]
                    ELSE [digits |-> y.ds, exp |-> k]
           ELSE [digits |-> ds2, exp |-> k]
      ELSE ShortestGenerate(BigMulSmall(x.r, 10), BigMulSmall(minus, 10),
                            BigMulSmall(plus, 10), scale, inclusive, k, ds2)

\* format_shortest, the digit loop
ShortestGenerate(mant, minus, plus, scale, inclusive, k, ds) ==
  ShortestDigit(SmallQuot(mant, scale), minus, plus, scale, inclusive, k, ds)

\* format_shortest with k known: the three numbers and the scale brought to
\* a common power of ten, one place ahead for the first digit
ShortestWithK(R, Mm, Mp, S, inclusive, k) ==
  ShortestGenerate(BigMulPow10(R, (IF k >= 0 THEN 0 ELSE 0 - k) + 1),
                   BigMulPow10(Mm, (IF k >= 0 THEN 0 ELSE 0 - k) + 1),
                   BigMulPow10(Mp, (IF k >= 0 THEN 0 ELSE 0 - k) + 1),
                   IF k >= 0 THEN BigMulPow10(S, k) ELSE S, inclusive, k, <<>>)

\* format_shortest with the value R / S, the distances Mm / S and Mp / S
\* and the upper end high / S of the interval
ShortestScaled(R, Mm, Mp, S, high, inclusive) ==
  ShortestWithK(R, Mm, Mp, S, inclusive,
    ShortestK(high, S, inclusive,
              ((BigBitLen(high) - BigBitLen(S)) * 30103) \div 100000))

\* format_shortest of a decoded f64
ShortestDecoded(d, up2, S) ==
  ShortestScaled(BigShl(d.mant, up2), BigShl(d.minus, up2),
                 BigShl(d.plus, up2), S,
                 BigAdd(BigShl(d.mant, up2), BigShl(d.plus, up2)),
                 d.inclusive)

\* flt2dec::strategy::dragon::format_shortest: the shortest digits d1 d2 ..
\* and the exponent k with 0.d1d2.. * 10^k inside the rounding interval of
\* the f64, the closest to it among the shortest
ShortestDigits(f) ==
  LET d == DecodeF64(f)
  IN  ShortestDecoded(d, IF d.exp >= 0 THEN d.exp ELSE 0,
                      IF d.exp >= 0 THEN BigOne ELSE BigShl(BigOne, 0 - d.exp))

\* flt2dec::digits_to_dec_str: the digits 0.d1d2.. * 10^exp written without
\* an exponent
DigitsToDecStr(sign, digits, exp) ==
  IF exp <= 0
  THEN sign \o "0." \o ZerosText(0 - exp) \o DigitsText(digits)
  ELSE IF exp < Len(digits)
  THEN sign \o DigitsText(SubSeq(digits, 1, exp)) \o "."
            \o DigitsText(SubSeq(digits, exp + 1, Len(digits)))
  ELSE sign \o DigitsText(digits) \o ZerosText(exp - Len(digits))

\* the digits of ShortestDigits laid out
ShortestText(sign, x) == DigitsToDecStr(sign, x.digits, x.exp)

\* <f64 as Display>::fmt without a precision: the shortest digits that read
\* back as the same f64, written without an exponent
F64Display(f) ==
  IF f.cls = "nan" THEN "NaN"
  ELSE IF f.cls = "inf" THEN (IF f.neg THEN "-inf" ELSE "inf")
  ELSE IF f.m = <<>> THEN (IF f.neg THEN "-0" ELSE "0")
  ELSE ShortestText(IF f.neg THEN "-" ELSE "", ShortestDigits(f))

\* X * 2^e rounded to a natural, ties to even
RoundToNatural(X, e, q) ==
  IF e >= 0 THEN q
  ELSE LET c == BigCmp(BigSub(X, BigShl(q, 0 - e)), BigShl(BigOne, (0 - e) - 1))
       IN  IF c = 1 \/ (c = 0 /\ BigIsOdd(q)) THEN BigAdd(q, BigOne) ELSE q

\* the digits ds with at least one of them before the last p
PadDigits(ds, p) ==
  IF Len(ds) > p THEN ds ELSE [k \in 1..(p + 1 - Len(ds)) |-> 0] \o ds

\* the digits with a point before the last p
FixedText(sign, pad, p) ==
  sign \o DigitsText(SubSeq(pad, 1, Len(pad) - p)) \o "."
       \o DigitsText(SubSeq(pad, Len(pad) - p + 1, Len(pad)))

\* the digits of X * 2^e rounded to a natural
FixedDigits(X, e) ==
  BigDigits(RoundToNatural(X, e, IF e >= 0 THEN BigShl(X, e)
                                 ELSE BigShr(X, 0 - e)))

\* <f64 as Display>::fmt with the precision p >= 1 ("{:.p}"): the exact
\* value rounded to p decimals, ties to the even digit
F64Fixed(f, p) ==
  IF f.cls = "nan" THEN "NaN"
  ELSE IF f.cls = "inf" THEN (IF f.neg THEN "-inf" ELSE "inf")
  ELSE FixedText(IF f.neg THEN "-" ELSE "",
                 PadDigits(FixedDigits(BigMulPow10(f.m, p), f.e), p), p)

(***************************************************************************)
(* The built-in operations: for every `registry.register(X::new())` of the *)
(* four domain registration functions, in call order, the struct X with    *)
(* the name and the similes its constructor puts in its ActionMetadata.    *)
(***************************************************************************)
\* register_token_actions (token_actions.rs)
TokenActionsList ==
  << [kind |-> "GetBalanceAction", name |-> "BALANCE_ACTION",
     similes |-> <<"check balance", "get wallet balance", "view balance", "show balance", "check token balance">>],
     [kind |-> "TokenBalancesAction", name |-> "TOKEN_BALANCE_ACTION",
     similes |-> <<"check token balances", "get wallet token balances", "view token balances", "show token balances", "all balances">>],
     [kind |-> "TransferAction", name |-> "TRANSFER",
     similes |-> <<"send sol", "send tokens", "transfer to another wallet">>],
     [kind |-> "WalletAddressAction", name |-> "WALLET_ADDRESS",
     similes |-> <<"get wallet address", "show wallet address", "display wallet address", "my wallet address">>],
     [kind |-> "GetTpsAction", name |-> "GET_TPS",
     similes |-> <<"get transactions per second", "check network speed", "network performance", "transaction throughput", "network tps">>],
     [kind |-> "RequestFundsAction", name |-> "REQUEST_FUNDS",
     similes |-> <<"request sol", "get test sol", "use faucet", "request test tokens", "get devnet sol">>],
     [kind |-> "FetchPriceAction", name |-> "FETCH_PRICE",
     similes |-> <<"get token price", "check price", "token value", "price check", "get price in usd">>],
     [kind |-> "TradeAction", name |-> "TRADE",
     similes |-> <<"swap tokens", "exchange tokens", "trade tokens", "convert tokens", "swap sol">>],
     [kind |-> "GetJupiterTokenListAction", name |-> "GET_JUPITER_TOKEN_LIST",
     similes |-> <<"jupiter tokens", "token list", "all tokens">>],
     [kind |-> "SearchJupiterTokensAction", name |-> "SEARCH_JUPITER_TOKENS",
     similes |-> <<"find token", "search token", "lookup token">>],
     [kind |-> "RugcheckAction", name |-> "RUGCHECK",
     similes |-> <<"check rug pull", "rug pull check", "rug pull detector", "token safety">>],
     [kind |-> "PythFetchPriceAction", name |-> "PYTH_FETCH_PRICE",
     similes |-> <<"get pyth price", "pyth oracle price", "oracle price">>],
     [kind |-> "CreateLimitOrderAction", name |-> "CREATE_LIMIT_ORDER",
     similes |-> <<"place limit order", "submit limit order", "jupiter limit order">>] >>

\* register_defi_actions (defi_actions.rs)
DefiActionsList ==
  << [kind |-> "GetSanctumPriceAction", name |-> "GET_SANCTUM_PRICE",
     similes |-> <<"get sanctum LST price", "fetch sanctum LST price", "sanctum price", "lst price">>],
     [kind |-> "StakeWithSolayerAction", name |-> "STAKE_WITH_SOLAYER",
     similes |-> <<"stake sol with solayer", "solayer staking", "get ssol", "solayer restaking", "liquid staking solayer">>],
     [kind |-> "LuloLendAction", name |-> "LULO_LEND",
     similes |-> <<"lend usdc with lulo", "lend tokens with lulo", "lulo lending", "lend with lulo">>],
     [kind |-> "GetSanctumLstApyAction", name |-> "GET_SANCTUM_LST_APY",
     similes |-> <<"get sanctum apy", "lst apy", "sanctum yield", "liquid staking apy">>],
     [kind |-> "GetDriftMarketsAction", name |-> "GET_DRIFT_MARKETS",
     similes |-> <<"get drift markets", "drift markets", "available drift markets", "drift perp markets">>],
     [kind |-> "GetDefiRatesAction", name |-> "GET_DEFI_RATES",
     similes |-> <<"get lending rates", "defi rates", "borrow rates", "supply apy">>],
     [kind |-> "SwapOnRaydiumAction", name |-> "SWAP_ON_RAYDIUM",
     similes |-> <<"raydium swap", "swap on raydium", "raydium trade", "raydium exchange">>],
     [kind |-> "GetOrcaWhirlpoolsAction", name |-> "GET_ORCA_WHIRLPOOLS",
     similes |-> <<"orca pools", "whirlpools", "orca liquidity">>],
     [kind |-> "GetRaydiumPoolsAction", name |-> "GET_RAYDIUM_POOLS",
     similes |-> <<"raydium pools", "raydium liquidity", "raydium amm">>],
     [kind |-> "GetMeteoraPoolsAction", name |-> "GET_METEORA_POOLS",
     similes |-> <<"meteora pools", "dlmm pools", "meteora liquidity">>],
     [kind |-> "GetJupiterRouteMapAction", name |-> "GET_JUPITER_ROUTE_MAP",
     similes |-> <<"jupiter routes", "swap routes", "trading routes">>] >>

\* register_nft_actions (nft_actions.rs)
NftActionsList ==
  << [kind |-> "GetAssetAction", name |-> "GET_ASSET",
     similes |-> <<"fetch asset", "retrieve asset", "get asset details", "get nft details">>],
     [kind |-> "GetMagicEdenCollectionStatsAction", name |-> "GET_MAGICEDEN_COLLECTION_STATS",
     similes |-> <<"get collection stats", "magiceden collection stats", "nft collection statistics", "floor price">>],
     [kind |-> "GetPopularMagicEdenCollectionsAction", name |-> "GET_POPULAR_MAGICEDEN_COLLECTIONS",
     similes |-> <<"get popular collections", "trending nft collections", "top nft collections", "magiceden popular">>],
     [kind |-> "GetMagicEdenCollectionListingsAction", name |-> "GET_MAGICEDEN_COLLECTION_LISTINGS",
     similes |-> <<"get collection listings", "nft listings", "magiceden listings", "collection for sale">>],
     [kind |-> "SearchAssetsAction", name |-> "SEARCH_ASSETS",
     similes |-> <<"search nfts", "find assets", "get wallet nfts", "list owned nfts">>],
     [kind |-> "GetAssetsByCreatorAction", name |-> "GET_ASSETS_BY_CREATOR",
     similes |-> <<"fetch assets by creator", "get creator assets", "creator nfts">>],
     [kind |-> "GetAssetsByAuthorityAction", name |-> "GET_ASSETS_BY_AUTHORITY",
     similes |-> <<"fetch assets by authority", "get authority assets", "authority nfts", "owned assets">>],
     [kind |-> "DeployCollectionAction", name |-> "DEPLOY_COLLECTION",
     similes |-> <<"create collection", "launch collection", "deploy nft collection", "mint collection">>],
     [kind |-> "MintNftAction", name |-> "MINT_NFT",
     similes |-> <<"create nft", "mint nft", "create collectible", "mint collectible">>],
     [kind |-> "ListNftForSaleAction", name |-> "LIST_NFT_FOR_SALE",
     similes |-> <<"list nft", "sell nft", "tensor list", "put nft for sale">>],
     [kind |-> "CancelNftListingAction", name |-> "CANCEL_NFT_LISTING",
     similes |-> <<"cancel nft listing", "delist nft", "remove nft listing", "stop selling nft">>],
     [kind |-> "ListMagicEdenNftAction", name |-> "LIST_MAGICEDEN_NFT",
     similes |-> <<"list nft magiceden", "sell nft magiceden", "magiceden list">>],
     [kind |-> "BidOnMagicEdenNftAction", name |-> "BID_ON_MAGICEDEN_NFT",
     similes |-> <<"bid nft", "offer on nft", "magiceden bid", "place bid">>] >>

\* register_misc_actions (misc_actions.rs)
MiscActionsList ==
  << [kind |-> "GetCoingeckoTrendingTokensAction", name |-> "GET_COINGECKO_TRENDING_TOKENS",
     similes |-> <<"trending tokens", "hot tokens", "popular tokens", "coingecko trending">>],
     [kind |-> "GetCoingeckoTokenInfoAction", name |-> "GET_COINGECKO_TOKEN_INFO",
     similes |-> <<"get token info", "token details", "coingecko token", "token information">>],
     [kind |-> "GetCoingeckoTokenPriceAction", name |-> "GET_COINGECKO_TOKEN_PRICE",
     similes |-> <<"get token price", "check price", "coingecko price", "crypto price">>],
     [kind |-> "GetCoingeckoTopGainersAction", name |-> "GET_COINGECKO_TOP_GAINERS",
     similes |-> <<"top gainers", "biggest gainers", "best performing tokens", "movers">>],
     [kind |-> "ParseTransactionAction", name |-> "PARSE_TRANSACTION",
     similes |-> <<"parse transaction", "analyze transaction", "decode transaction", "inspect tx">>],
     [kind |-> "ResolveSolDomainAction", name |-> "RESOLVE_SOL_DOMAIN",
     similes |-> <<"resolve sol domain", "lookup sol domain", "get domain owner", "find sol address", "resolve .sol">>],
     [kind |-> "GetDomainForWalletAction", name |-> "GET_DOMAIN_FOR_WALLET",
     similes |-> <<"reverse domain lookup", "get wallet domain", "find domain for address", "wallet to domain">>],
     [kind |-> "CreateHeliusWebhookAction", name |-> "CREATE_HELIUS_WEBHOOK",
     similes |-> <<"create webhook", "helius webhook", "monitor address", "transaction notifications">>],
     [kind |-> "GetHeliusWebhookAction", name |-> "GET_HELIUS_WEBHOOK",
     similes |-> <<"get webhook", "fetch webhook", "webhook details">>],
     [kind |-> "DeleteHeliusWebhookAction", name |-> "DELETE_HELIUS_WEBHOOK",
     similes |-> <<"delete webhook", "remove webhook", "stop monitoring">>],
     [kind |-> "SendTransactionWithPriorityAction", name |-> "SEND_TRANSACTION_WITH_PRIORITY",
     similes |-> <<"priority send", "fast transaction", "helius send", "priority fee">>],
     [kind |-> "GetDexscreenerTokenProfilesAction", name |-> "GET_DEXSCREENER_TOKEN_PROFILES",
     similes |-> <<"dexscreener profiles", "token profiles", "dex token info">>],
     [kind |-> "GetDexscreenerBoostedTokensAction", name |-> "GET_DEXSCREENER_BOOSTED_TOKENS",
     similes |-> <<"boosted tokens", "dexscreener boosts", "trending dex tokens">>],
     [kind |-> "GetDexscreenerPairsByTokenAction", name |-> "GET_DEXSCREENER_PAIRS_BY_TOKEN",
     similes |-> <<"token pairs", "dex pairs", "trading pairs", "token markets">>],
     [kind |-> "SearchDexscreenerPairsAction", name |-> "SEARCH_DEXSCREENER_PAIRS",
     similes |-> <<"search pairs", "find pairs", "search dex", "find markets">>],
     [kind |-> "GetDexscreenerPairByAddressAction", name |-> "GET_DEXSCREENER_PAIR_BY_ADDRESS",
     similes |-> <<"pair info", "pool info", "get pair", "pair details">>],
     [kind |-> "GetAllDomainsTldsAction", name |-> "GET_ALL_DOMAINS_TLDS",
     similes |-> <<"domain tlds", "all tlds", "supported domains">>],
     [kind |-> "GetOwnedDomainsAction", name |-> "GET_OWNED_DOMAINS",
     similes |-> <<"my domains", "owned domains", "wallet domains">>],
     [kind |-> "GetFavoriteDomainAction", name |-> "GET_FAVORITE_DOMAIN",
     similes |-> <<"primary domain", "main domain", "favorite domain">>],
     [kind |-> "GetBirdeyeTokenOverviewAction", name |-> "GET_BIRDEYE_TOKEN_OVERVIEW",
     similes |-> <<"birdeye token", "token overview", "token analytics">>],
     [kind |-> "GetBirdeyeTokenSecurityAction", name |-> "GET_BIRDEYE_TOKEN_SECURITY",
     similes |-> <<"token security", "token safety", "token audit">>],
     [kind |-> "GetBirdeyeTrendingTokensAction", name |-> "GET_BIRDEYE_TRENDING_TOKENS",
     similes |-> <<"trending tokens", "hot tokens", "top tokens">>],
     [kind |-> "GetBirdeyeOhlcvAction", name |-> "GET_BIRDEYE_OHLCV",
     similes |-> <<"price history", "ohlcv", "candles", "chart data">>],
     [kind |-> "GetBirdeyeTradesAction", name |-> "GET_BIRDEYE_TRADES",
     similes |-> <<"recent trades", "trade history", "token trades">>] >>

\* a faulty set of built-in operations: the last one registered has the
\* name of the first
RegisterAllOrder_shadowed ==
  LET all == TokenActionsList \o DefiActionsList \o NftActionsList
               \o MiscActionsList
  IN  [k \in 1..Len(all) |->
         IF k = Len(all) THEN [all[k] EXCEPT !.name = all[1].name] ELSE all[k]]

\* register_all_actions: token, defi, nft, misc, in this order
RegisterAllOrder ==
  TokenActionsList \o DefiActionsList \o NftActionsList \o MiscActionsList

(***************************************************************************)
(* Keys, the ledger and the inputs the environment may supply.             *)
(***************************************************************************)
\* agent.wallet.pubkey()
WalletKey == "AgentWallet"
\* spl_token::id() and the id of the Token-2022 program
SplTokenId == "TokenkegQ"
Token2022Id == "TokenzQd"
SystemProgramId == "System"

\* the strings Pubkey::from_str accepts; every other string is rejected
ValidPubkeys ==
  {WalletKey, "Alice", "MintUSDC", "MintCents", "MintT22", "NotAMint",
   "NoAccount"}

\* Pubkey::from_str
PubkeyFromStr(s) ==
  IF s \in ValidPubkeys THEN [ok |-> TRUE, key |-> s]
  ELSE [ok |-> FALSE, key |-> ""]

\* the accounts the ledger holds besides associated token accounts: two
\* SPL mints, a mint owned by Token-2022, and accounts that are no mints
LedgerAccount(k) ==
  CASE k = "MintUSDC"  -> [exists |-> TRUE, owner |-> SplTokenId,
                           isMint |-> TRUE, decimals |-> 6]
    [] k = "MintCents" -> [exists |-> TRUE, owner |-> SplTokenId,
                           isMint |-> TRUE, decimals |-> 2]
    [] k = "MintT22"   -> [exists |-> TRUE, owner |-> Token2022Id,
                           isMint |-> TRUE, decimals |-> 9]
    [] k \in {"NotAMint", "Alice", WalletKey}
                       -> [exists |-> TRUE, owner |-> SystemProgramId,
                           isMint |-> FALSE, decimals |-> 0]
    [] OTHER           -> [exists |-> FALSE, owner |-> "",
                           isMint |-> FALSE, decimals |-> 0]

\* get_associated_token_address(owner, mint)
get_associated_token_address(owner, mint) == "ata:" \o owner \o ":" \o mint

\* the associated token accounts that may exist on the ledger
AtaUniverse ==
  { get_associated_token_address("Alice", m) : m \in {"MintUSDC", "MintCents"} }

Blockhashes == {"bhA", "bhB"}

\* invocation slots: executions of ActionRegistry::execute in flight
Invs == {"i1", "i2"}

\* bounds of the model
MaxRegs == 3
MaxPermuted == 3
\* the longest batch handed to sign_all_transactions
MaxBatch == 3

\* LAMPORTS_PER_SOL = 10^9, as a power of ten
LamportsDecimals == 9

\* f64 amounts: 0.1, 5.0, 0.0, 4e-10, 0.004, -1.0, 1e11
Amt_0_1   == F64Fin(FALSE, <<19661, 6553, 13107, 102>>, -55)
Amt_5     == F64Fin(FALSE, <<5>>, 0)
Amt_0     == F64Zero
Amt_4em10 == F64Fin(FALSE, <<15803, 13231, 29567, 219>>, -84)
Amt_0_004 == F64Fin(FALSE, <<27263, 27000, 25165, 32>>, -58)
Amt_neg1  == F64Fin(TRUE, <<1>>, 0)
Amt_1e11  == F64Fin(FALSE, <<26624, 4333, 93>>, 0)
\* 0.58, 1.14, 0.003919, 1e-9, 1.0, 123.456, 18.5, 1.915e-6
Amt_0_58     == F64Fin(FALSE, <<17039, 20971, 15728, 148>>, -53)
Amt_1_14     == F64Fin(FALSE, <<2621, 18350, 30146, 145>>, -52)
Amt_0_003919 == F64Fin(FALSE, <<4345, 6824, 13690, 128>>, -60)
Amt_1em9     == F64Fin(FALSE, <<22165, 20557, 14383, 137>>, -82)
Amt_1        == F64Fin(FALSE, <<1>>, 0)
Amt_123_456  == F64Fin(FALSE, <<15991, 13631, 29884, 246>>, -46)
Amt_18_5     == F64Fin(FALSE, <<37>>, -1)
Amt_1915em9  == F64Fin(FALSE, <<20709, 17510, 16825, 128>>, -71)

\* the largest decimal precision of the amount conversions explored
MaxDecimals == 9

\* the amounts the executes of TRANSFER are given
Amounts == {Amt_0_1, Amt_5, Amt_0, Amt_4em10, Amt_0_004, Amt_neg1, Amt_1e11}
(***************************************************************************)
(* JSON values: [str |-> s], [num |-> f64], [null |-> TRUE]; a JSON object *)
(* is a function from its field names to JSON values.                      *)
(***************************************************************************)
JStr(s) == [str |-> s]
JNum(f) == [num |-> f]
JInt(n) == [int |-> n]
JNull == [null |-> TRUE]
JBool(b) == [bool |-> b]
IsJStr(v) == DOMAIN v = {"str"}
IsJNum(v) == DOMAIN v = {"num"}
IsJInt(v) == DOMAIN v = {"int"}
IsJNull(v) == DOMAIN v = {"null"}
IsJBool(v) == DOMAIN v = {"bool"}
\* a JSON array
JArr(s) == [arr |-> s]
IsJArr(v) == DOMAIN v = {"arr"}
EmptyObject == [f \in {} |-> JNull]

\* Rust's `n as f64` for the integer of a JSON number
IntAsF64(n) ==
  RoundF64(n < 0, BigFromNat(IF n < 0 THEN 0 - n ELSE n), FALSE, 0)

\* whether serde_json deserializes the JSON value v into the Rust type t:
\* a String from a string; an f64 from any number; a u16, u32 or i64 from a
\* number written as an integer within the range of the type (the integers
\* drawn here are below 2^31 in size, so none exceeds the range of u32 or
\* i64); a bool from true and false; a Vec<String> from an array of strings
JHasType(v, t) ==
  CASE t = "String" -> IsJStr(v)
    [] t = "f64" -> IsJNum(v) \/ IsJInt(v)
    [] t = "u16" -> IsJInt(v) /\ v.int >= 0 /\ v.int <= 65535
    [] t = "u32" -> IsJInt(v) /\ v.int >= 0
    [] t = "i64" -> IsJInt(v)
    [] t = "bool" -> IsJBool(v)
    [] t = "Vec<String>" ->
         IsJArr(v) /\ \A k \in 1..Len(v.arr) : IsJStr(v.arr[k])

\* the f64 a member of type f64 is given
JAsF64(v) == IF IsJInt(v) THEN IntAsF64(v.int) ELSE v.num

\* what is neither a scalar nor an array: an object
IsJObject(v) ==
  ~(IsJStr(v) \/ IsJNum(v) \/ IsJInt(v) \/ IsJNull(v) \/ IsJBool(v)
    \/ IsJArr(v))

\* Value::get(key): the member of an object, if it has one of this name
JGet(v, key) ==
  IF IsJObject(v) /\ key \in DOMAIN v THEN [some |-> TRUE, value |-> v[key]]
  ELSE [some |-> FALSE, value |-> JNull]

\* value[key]: the member, and null where there is none
JIndex(v, key) == JGet(v, key).value

\* the decimal text of an integer
IntText(n) ==
  IF n = 0 THEN "0"
  ELSE IF n < 0 THEN "-" \o DigitsText(BigDigits(BigFromNat(0 - n)))
  ELSE DigitsText(BigDigits(BigFromNat(n)))

\* <Value as Display>::fmt of a string, of null and of an integer (the
\* values an "error" member is given here)
JsonText(v) ==
  CASE IsJStr(v) -> "\"" \o v.str \o "\""
    [] IsJNull(v) -> "null"
    [] IsJInt(v) -> IntText(v.int)

\* the members of type Option<T> of each operation's Input struct, with T
OptionalMembers(kind) ==
  CASE kind = "TransferAction" -> [mint |-> "String"]
    [] kind = "GetBalanceAction" -> [tokenAddress |-> "String"]
    [] kind = "TradeAction" -> [inputMint |-> "String", slippageBps |-> "u32"]
    [] kind \in {"ListMagicEdenNftAction", "BidOnMagicEdenNftAction"} ->
         [auctionHouseAddress |-> "String"]
    [] kind = "DeployCollectionAction" ->
         [symbol |-> "String", royaltyBasisPoints |-> "u16"]
    [] kind = "MintNftAction" ->
         [symbol |-> "String", sellerFeeBasisPoints |-> "u16",
          collectionMint |-> "String", recipient |-> "String"]
    [] kind = "SendTransactionWithPriorityAction" -> [priorityLevel |-> "String"]
    [] kind = "SwapOnRaydiumAction" -> [slippage |-> "f64"]
    [] kind = "TokenBalancesAction" -> [walletAddress |-> "String"]
    [] kind = "GetJupiterTokenListAction" -> [tags |-> "String"]
    [] kind = "GetDriftMarketsAction" -> [marketType |-> "String"]
    [] kind \in {"GetOrcaWhirlpoolsAction", "GetMeteoraPoolsAction"} ->
         [tokenMint |-> "String"]
    [] kind = "GetRaydiumPoolsAction" ->
         [type |-> "String", poolIds |-> "String"]
    [] kind = "GetMagicEdenCollectionStatsAction" -> [timeWindow |-> "String"]
    [] kind = "GetPopularMagicEdenCollectionsAction" ->
         [timeRange |-> "String"]
    [] kind = "GetMagicEdenCollectionListingsAction" ->
         [limit |-> "u32", offset |-> "u32"]
    [] kind = "SearchAssetsAction" ->
         [ownerAddress |-> "String", creatorAddress |-> "String",
          groupKey |-> "String", groupValue |-> "String",
          page |-> "u32", limit |-> "u32"]
    [] kind = "GetAssetsByCreatorAction" ->
         [onlyVerified |-> "bool", limit |-> "u32", page |-> "u32"]
    [] kind = "GetAssetsByAuthorityAction" ->
         [limit |-> "u32", page |-> "u32", before |-> "String",
          after |-> "String"]
    [] kind = "GetCoingeckoTokenPriceAction" ->
         [vsCurrencies |-> "Vec<String>"]
    [] kind = "ParseTransactionAction" -> [heliusApiKey |-> "String"]
    [] kind = "GetCoingeckoTopGainersAction" -> [duration |-> "String"]
    [] kind = "GetDexscreenerBoostedTokensAction" -> [type |-> "String"]
    [] kind = "GetBirdeyeTrendingTokensAction" ->
         [sortBy |-> "String", limit |-> "u32"]
    [] kind = "GetBirdeyeOhlcvAction" ->
         [type |-> "String", timeFrom |-> "i64", timeTo |-> "i64"]
    [] kind = "GetBirdeyeTradesAction" -> [limit |-> "u32"]
    [] OTHER -> EmptyObject

\* an Option<T> member is None when the member is absent or null, and
\* Some of a T otherwise; a value that is no T fails the whole parse
OptionalParse(kind, input) ==
  \A f \in DOMAIN OptionalMembers(kind) :
    f \in DOMAIN input =>
      (IsJNull(input[f]) \/ JHasType(input[f], OptionalMembers(kind)[f]))

\* the value of an Option<String> member: Some(s) or None
OptionalString(input, f) ==
  IF f \in DOMAIN input /\ IsJStr(input[f])
  THEN [some |-> TRUE, str |-> input[f].str]
  ELSE [some |-> FALSE, str |-> ""]

\* anyhow::Result<Value>
Ok(v) == [kind |-> "ok", value |-> v, msg |-> <<>>]
Err(m) == [kind |-> "err", value |-> EmptyObject, msg |-> m]
Pending == [kind |-> "none", value |-> EmptyObject, msg |-> <<>>]

\* json!({"status": "error", "message": message})
ErrorValue(message) == [status |-> JStr("error"), message |-> JStr(message)]

(***************************************************************************)
(* State.                                                                  *)
(***************************************************************************)
VARIABLES
  actions,        \* ActionRegistry.actions: name -> registered operation
  regCount,       \* number of registration calls made so far
  lastReg,        \* history: name -> number of the latest call registering it
  regOrder,       \* history: the names in the order of their first registration
  metaOut,        \* what the latest metadata(), get() or all() call returned
  inv,            \* the state of each invocation of execute
  tokenAccounts,  \* ledger: the associated token accounts that exist
  mintKeys        \* history: the mint keypairs the invocations used, in order

vars ==
  <<actions, regCount, lastReg, regOrder, metaOut, inv, tokenAccounts, mintKeys>>

NoOp == [kind |-> "none", name |-> "", similes |-> <<>>, id |-> 0]
NoMessage ==
  [payer |-> "", signers |-> <<>>, instructions |-> <<>>, recent_blockhash |-> ""]
NoTx == [message |-> NoMessage, signatures |-> <<>>]

IdleInv ==
  [pc |-> "idle", name |-> "", op |-> NoOp, input |-> EmptyObject,
   to |-> "", mint |-> "", amount |-> F64Zero,
   decimals |-> 0, token_program_id |-> "", base_units |-> <<>>,
   instructions |-> <<>>, destOnLedger |-> FALSE,
   latest_blockhash |-> "", tx |-> NoTx, mint_keypair |-> "",
   txs |-> <<>>, signed_txs |-> <<>>, rpc_failed |-> FALSE,
   calls |-> <<>>, sent |-> <<>>, downstream |-> "",
   http_status |-> "", feed_id |-> "", signature |-> "",
   outcome |-> "", balance |-> F64Zero, result |-> Pending]

NoMeta == [called |-> FALSE, list |-> <<>>, permuted |-> FALSE]
(***************************************************************************)
(* ActionRegistry (actions.rs).                                            *)
(***************************************************************************)
\* every name an operation may be registered under, in a fixed order
NamesOf(ops) == [k \in 1..Len(ops) |-> ops[k].name]

\* an Action the caller implements itself and registers
CustomAction(name, similes) ==
  [kind |-> "CustomAction", name |-> name, similes |-> similes]

BuiltinAction(kind) ==
  CHOOSE a \in {RegisterAllOrder[k] : k \in DOMAIN RegisterAllOrder} :
    a.kind = kind

\* the operations handed to single register calls
RegOps ==
  { BuiltinAction("TransferAction"), BuiltinAction("TradeAction"),
    CustomAction("TRANSFER", <<"wire">>), CustomAction("FOO", <<"TRADE">>) }

NameUniverse == NamesOf(RegisterAllOrder) \o <<"FOO">>

\* ActionRegistry::new
NewRegistry == [n \in {} |-> NoOp]

\* a faulty insert: an existing entry is kept (entry().or_insert)
RegistryInsert_keep_first(reg, op) == reg @@ (op.name :> op)

\* HashMap::insert(name, action) of ActionRegistry::register
RegistryInsert(reg, op) == (op.name :> op) @@ reg

\* a faulty lookup: a miss falls back to some registered operation
RegistryGet_fallback(reg, name) ==
  IF name \in DOMAIN reg THEN [some |-> TRUE, op |-> reg[name]]
  ELSE IF DOMAIN reg # {}
  THEN [some |-> TRUE, op |-> reg[CHOOSE n \in DOMAIN reg : TRUE]]
  ELSE [some |-> FALSE, op |-> NoOp]

\* a faulty lookup: a miss is retried on the aliases of the operations
RegistryGet_by_simile(reg, name) ==
  LET alias == { n \in DOMAIN reg :
                   \E k \in 1..Len(reg[n].similes) : reg[n].similes[k] = name }
  IN  IF name \in DOMAIN reg THEN [some |-> TRUE, op |-> reg[name]]
      ELSE IF alias # {}
      THEN [some |-> TRUE, op |-> reg[CHOOSE n \in alias : TRUE]]
      ELSE [some |-> FALSE, op |-> NoOp]

\* ActionRegistry::get
RegistryGet(reg, name) ==
  IF name \in DOMAIN reg THEN [some |-> TRUE, op |-> reg[name]]
  ELSE [some |-> FALSE, op |-> NoOp]

\* the Arc<dyn Action> made by the k-th register call
Registered(a, k) ==
  [kind |-> a.kind, name |-> a.name, similes |-> a.similes, id |-> k]

RECURSIVE RegisterEach(_, _, _)
\* the register calls of a registration function, in order; the call for
\* ops[1] is call number k + 1 (a registered name is a key from then on, so
\* the fold always continues to the end of ops)
RegisterEach(reg, ops, k) ==
  IF ops = <<>> THEN reg
  ELSE LET next == RegistryInsert(reg, Registered(Head(ops), k + 1))
       IN  IF Head(ops).name \in DOMAIN next
           THEN RegisterEach(next, Tail(ops), k + 1)
           ELSE next

\* history: the operation of the most recent register call for each name
LatestCalls(hist, ops, k) ==
  [n \in DOMAIN hist \cup {ops[j].name : j \in DOMAIN ops} |->
     IF \E j \in DOMAIN ops : ops[j].name = n
     THEN LET last == CHOOSE j \in DOMAIN ops :
                        /\ ops[j].name = n
                        /\ \A j2 \in DOMAIN ops : ops[j2].name = n => j2 <= j
          IN  Registered(ops[last], k + last)
     ELSE hist[n]]

\* history: the order of first registration after registering ops in turn
FirstRegistered(order, ops) ==
  LET fresh(k) == /\ \A j \in 1..Len(order) : order[j] # ops[k].name
                  /\ \A j \in 1..(k - 1) : ops[j].name # ops[k].name
      idx == SelectSeq([k \in 1..Len(ops) |-> k], fresh)
  IN  order \o [k \in 1..Len(idx) |-> ops[idx[k]].name]

AllQuiet == \A i \in Invs : inv[i].pc \in {"idle", "done"}

\* ActionRegistry::register(action); `&mut self` excludes running executes
Register(a) ==
  /\ AllQuiet
  /\ actions' = RegisterEach(actions, <<a>>, regCount)
  /\ lastReg' = LatestCalls(lastReg, <<a>>, regCount)
  /\ regOrder' = FirstRegistered(regOrder, <<a>>)
  /\ regCount' = regCount + 1
  /\ metaOut' = NoMeta
  /\ UNCHANGED <<inv, tokenAccounts, mintKeys>>

\* a registration function: `registry.register(X::new())` for every
\* operation of ops, in order
RegisterActions(ops) ==
  /\ AllQuiet
  /\ actions' = RegisterEach(actions, ops, regCount)
  /\ lastReg' = LatestCalls(lastReg, ops, regCount)
  /\ regOrder' = FirstRegistered(regOrder, ops)
  /\ regCount' = regCount + Len(ops)
  /\ metaOut' = NoMeta
  /\ UNCHANGED <<inv, tokenAccounts, mintKeys>>

\* the registration functions of the four domains, public by themselves
register_token_actions == RegisterActions(TokenActionsList)
register_defi_actions == RegisterActions(DefiActionsList)
register_nft_actions == RegisterActions(NftActionsList)
register_misc_actions == RegisterActions(MiscActionsList)

\* register_all_actions(registry): the four of them, in this order
RegisterAllActions == RegisterActions(RegisterAllOrder)

\* ActionMetadata of a registered operation (a.metadata().clone())
MetadataOf(op) == [name |-> op.name, similes |-> op.similes, kind |-> op.kind]

\* the names of S in the order of NameUniverse
SortedNames(S) ==
  LET member(n) == n \in S IN SelectSeq(NameUniverse, member)

\* the orders in which HashMap::values() may visit the entries of a map
\* with the keys S: the hasher is seeded at random for every map, so every
\* permutation of the entries
IterationOrders(S) ==
  { q \in [1..Cardinality(S) -> S] :
      \A a, b \in 1..Cardinality(S) : a # b => q[a] # q[b] }

\* what a walk over the values of the map yields.  For a map of at most
\* MaxPermuted entries every order is a result of its own.  The orders of
\* a larger map are too many to list: its result holds the entries in the
\* order of NameUniverse and is marked `permuted`, which says that the
\* caller receives some permutation of this list, any of them
IterationResults(S) ==
  IF Cardinality(S) <= MaxPermuted
  THEN { [order |-> q, permuted |-> FALSE] : q \in IterationOrders(S) }
  ELSE { [order |-> SortedNames(S), permuted |-> TRUE] }

\* ActionRegistry::metadata
RegistryMetadata(reg, order) ==
  [k \in 1..Len(order) |-> MetadataOf(reg[order[k]])]

\* metadata() takes `&self`, as execute does: it is answered at any time,
\* also while the call of an execute waits for the network or the signer
MetadataCall ==
  /\ \E r \in IterationResults(DOMAIN actions) :
       metaOut' = [called |-> TRUE, permuted |-> r.permuted,
                   list |-> RegistryMetadata(actions, r.order)]
  /\ UNCHANGED <<actions, regCount, lastReg, regOrder, inv, tokenAccounts, mintKeys>>

\* a faulty registry: a lookup takes the entry out of the map
RegistryAfterGet_take(reg, name) ==
  [n \in (DOMAIN reg) \ {name} |-> reg[n]]

\* the map after `self.actions.get(name).cloned()`: get borrows the map
\* and clones the Arc of the entry, the map is as before
RegistryAfterGet(reg, name) == reg

\* ActionRegistry::get (`&self`)
GetCall(name) ==
  /\ LET found == RegistryGet(actions, name)
     IN  metaOut' = [called |-> FALSE, list |-> <<>>, permuted |-> FALSE,
                     read |-> "get", asked |-> name,
                     ops |-> IF found.some THEN <<found.op>> ELSE <<>>]
  /\ actions' = RegistryAfterGet(actions, name)
  /\ UNCHANGED <<regCount, lastReg, regOrder, inv, tokenAccounts, mintKeys>>

\* ActionRegistry::all (`&self`)
AllCall ==
  /\ \E r \in IterationResults(DOMAIN actions) :
       metaOut' = [called |-> FALSE, list |-> <<>>, permuted |-> r.permuted,
                   read |-> "all",
                   ops |-> [k \in 1..Len(r.order) |-> actions[r.order[k]]]]
  /\ UNCHANGED <<actions, regCount, lastReg, regOrder, inv, tokenAccounts, mintKeys>>

\* the keys Keypair::new() may generate, named in the order in which the
\* random generator returns them: no key is returned twice
KeyOrder == <<"MintKeyA", "MintKeyB">>
NewKeys == { KeyOrder[k] : k \in 1..Len(KeyOrder) }

\* a faulty operation: one keypair is kept and used by every invocation
KeypairNew_stored == KeyOrder[1]

\* Keypair::new(): the next key of the generator
KeypairNew == KeyOrder[Len(mintKeys) + 1]

NftKinds == {"MintNftAction", "DeployCollectionAction"}

\* bound of the model: an operation that generates a keypair is started
\* only while the generator has a key left for it
KeysLeft ==
  Len(mintKeys)
    + Cardinality({ j \in Invs : inv[j].op.kind \in NftKinds /\ inv[j].pc = "call" })
    < Len(KeyOrder)

\* ActionRegistry::execute up to the call of the operation
Execute(i, name, input) ==
  /\ inv[i].pc = "idle"
  /\ LET found == RegistryGet(actions, name)
     IN  /\ (found.some /\ found.op.kind \in NftKinds) => KeysLeft
         /\ inv' = [inv EXCEPT ![i] =
           IF found.some
           THEN [IdleInv EXCEPT !.pc = "call", !.name = name,
                                !.op = found.op, !.input = input]
           ELSE [IdleInv EXCEPT !.pc = "done", !.name = name,
                                !.input = input,
                                !.result = Err(<<"Unknown action: ", name>>)]]
  /\ metaOut' = NoMeta
  /\ actions' = RegistryAfterGet(actions, name)
  /\ UNCHANGED <<regCount, lastReg, regOrder, tokenAccounts, mintKeys>>

\* the caller takes the result of a finished execute
Return(i) ==
  /\ inv[i].pc = "done"
  /\ inv' = [inv EXCEPT ![i] = IdleInv]
  /\ metaOut' = NoMeta
  /\ UNCHANGED <<actions, regCount, lastReg, regOrder, tokenAccounts, mintKeys>>

\* a caller-implemented Action: its call is not this repository's code
CustomActionCall(i, r) ==
  /\ inv[i].pc = "call"
  /\ inv[i].op.kind = "CustomAction"
  /\ inv' = [inv EXCEPT ![i].pc = "done", ![i].result = r]
  /\ UNCHANGED <<actions, regCount, lastReg, regOrder, metaOut, tokenAccounts, mintKeys>>
(***************************************************************************)
(* Instructions, messages, signatures and the network's view of them.      *)
(***************************************************************************)
\* system_instruction::transfer
system_transfer(from, to, lamports) ==
  [program |-> SystemProgramId, ix |-> "transfer", signers |-> {from},
   from |-> from, to |-> to, lamports |-> lamports]

\* spl_associated_token_account::instruction::create_associated_token_account
create_associated_token_account(funder, wallet, mint, token_program) ==
  [program |-> "ATokenProgram", ix |-> "create", signers |-> {funder},
   funder |-> funder, wallet |-> wallet, mint |-> mint,
   token_program |-> token_program,
   account |-> get_associated_token_address(wallet, mint)]

\* spl_token::instruction::transfer_checked: rejects a program id that is
\* not spl_token::id()
transfer_checked(program_id, source, mint, dest, authority, amount, decimals) ==
  IF program_id # SplTokenId THEN [ok |-> FALSE, ix |-> [program |-> program_id]]
  ELSE [ok |-> TRUE,
        ix |-> [program |-> program_id, ix |-> "transfer_checked",
                signers |-> {authority}, source |-> source, mint |-> mint,
                destination |-> dest, authority |-> authority,
                amount |-> amount, decimals |-> decimals]]

RECURSIVE SignersOf(_)
SignersOf(ixs) ==
  IF ixs = <<>> THEN {} ELSE Head(ixs).signers \cup SignersOf(Tail(ixs))

\* an enumeration of a set of keys
SeqOfSet(S) ==
  CHOOSE q \in [1..Cardinality(S) -> S] :
    \A a, b \in 1..Cardinality(S) : a # b => q[a] # q[b]

\* message::v0::Message::try_compile(payer, instructions, [], blockhash):
\* the payer is the first required signer, the other signers follow
CompileMessage(payer, ixs, blockhash) ==
  [payer |-> payer,
   signers |-> <<payer>> \o SeqOfSet(SignersOf(ixs) \ {payer}),
   instructions |-> ixs,
   recent_blockhash |-> blockhash]

\* keypair.sign_message(message.serialize())
Sig(signer, message) == [signer |-> signer, message |-> message]
\* Signature::default(), the placeholder of an unsigned slot
ZeroSig == [signer |-> "", message |-> NoMessage]
\* Signature::to_string, as a JSON string
JSigStr(sig) == [str58 |-> sig]

\* KeypairWallet::sign_transaction
sign_transaction(tx) ==
  [tx EXCEPT !.signatures = Append(@, Sig(WalletKey, tx.message))]

RECURSIVE SignAllFrom(_, _)
\* the loop `for tx in &mut txs`, from the k-th element on: the element is
\* signed where it stands and the loop moves to the next
SignAllFrom(txs, k) ==
  IF k > Len(txs) THEN txs
  ELSE SignAllFrom(
         [txs EXCEPT ![k].signatures = Append(@, Sig(WalletKey, txs[k].message))],
         k + 1)

\* a faulty batch signer: the bytes of the first draft are signed for all
sign_all_transactions_shared(txs) ==
  [k \in 1..Len(txs) |->
     [txs[k] EXCEPT !.signatures = Append(@, Sig(WalletKey, txs[1].message))]]

\* KeypairWallet::sign_all_transactions
sign_all_transactions(txs) == SignAllFrom(txs, 1)

\* the signatures the network requires of a transaction
SignaturesValid(tx) ==
  /\ Len(tx.signatures) = Len(tx.message.signers)
  /\ \A k \in 1..Len(tx.signatures) :
       tx.signatures[k] = Sig(tx.message.signers[k], tx.message)

RECURSIVE ApplyInstructions(_, _)
\* the ledger after the instructions ran in order, if none of them failed
ApplyInstructions(accts, ixs) ==
  IF ixs = <<>> THEN [ok |-> TRUE, accts |-> accts]
  ELSE LET x == Head(ixs)
       IN  IF x.program = "ATokenProgram"
           THEN IF x.account \in accts THEN [ok |-> FALSE, accts |-> accts]
                ELSE ApplyInstructions(accts \cup {x.account}, Tail(ixs))
           ELSE IF x.program = SplTokenId /\ x.ix = "transfer_checked"
           THEN IF x.destination \notin accts THEN [ok |-> FALSE, accts |-> accts]
                ELSE ApplyInstructions(accts, Tail(ixs))
           ELSE ApplyInstructions(accts, Tail(ixs))

\* whether the network can accept the transaction on this ledger
NetworkCanAccept(tx, accts) ==
  SignaturesValid(tx) /\ ApplyInstructions(accts, tx.message.instructions).ok
(***************************************************************************)
(* TRANSFER: TransferAction::call (token_actions.rs) and Agent::transfer   *)
(* (agent.rs).  Every action below is one network or signer call together  *)
(* with the local code that follows it up to the next such call.           *)
(***************************************************************************)
\* a faulty engine: the result is kept in a slot the invocations share
Finish_shared(i, r) ==
  [j \in Invs |-> [inv[j] EXCEPT !.pc = "done", !.result = r]]

\* the call of invocation i returns r
Finish(i, r) == [inv EXCEPT ![i].pc = "done", ![i].result = r]

\* serde_json::from_value::<Input>(input) of TransferAction::call succeeds
TransferInputParses(input) ==
  /\ "to" \in DOMAIN input
  /\ IsJStr(input["to"])
  /\ "amount" \in DOMAIN input
  /\ JHasType(input["amount"], "f64")
  /\ OptionalParse("TransferAction", input)

TransferHasMint(input) == "mint" \in DOMAIN input /\ IsJStr(input["mint"])

\* (amount * 10f64.powi(decimals)) as u64, and for lamports
\* (amount * LAMPORTS_PER_SOL as f64) as u64
ToBaseUnits(amount, decimals) == AsU64(F64MulPow10(amount, decimals))

\* lamports as f64 / LAMPORTS_PER_SOL as f64 of Agent::get_balance
FromBaseUnits(units, decimals) == F64DivPow10(U64AsF64(units), decimals)

\* the scaling of Agent::transfer applied to the amounts the executes are
\* given, for every precision up to that of lamports, computed once
BaseUnitsOf ==
  [a \in Amounts, d \in 0..LamportsDecimals |-> ToBaseUnits(a, d)]

\* the balance Agent::get_balance computes from the lamports of an amount
NativeBalanceOf ==
  [a \in {Amt_0, Amt_5} |->
     FromBaseUnits(BaseUnitsOf[a, LamportsDecimals], LamportsDecimals)]

TooSmall == <<"Transfer amount is too small">>

\* a faulty zero check: never true
IsZeroUnits_never(units) == FALSE

\* `lamports == 0` and `amount_in_base_units == 0`
IsZeroUnits(units) == units = <<>>

\* TransferAction::call up to the first network call of Agent::transfer
TransferActionCall(i) ==
  /\ inv[i].pc = "call"
  /\ inv[i].op.kind = "TransferAction"
  /\ LET input == inv[i].input
     IN
     IF ~TransferInputParses(input)
     THEN inv' = Finish(i, Err(<<"serde_json: invalid input">>))
     ELSE
     LET to == PubkeyFromStr(input["to"].str)
         amount == JAsF64(input["amount"])
     IN
     IF ~to.ok THEN inv' = Finish(i, Err(<<"Pubkey::from_str: ", input["to"].str>>))
     ELSE IF TransferHasMint(input)
     THEN LET mint == PubkeyFromStr(input["mint"].str)
          IN  IF ~mint.ok
              THEN inv' = Finish(i, Err(<<"Pubkey::from_str: ", input["mint"].str>>))
              ELSE inv' = [inv EXCEPT ![i].pc = "get_mint_account",
                                      ![i].to = to.key, ![i].mint = mint.key,
                                      ![i].amount = amount]
     ELSE LET lamports == BaseUnitsOf[amount, LamportsDecimals]
          IN  IF IsZeroUnits(lamports)
              THEN inv' = [Finish(i, Err(TooSmall)) EXCEPT
                             ![i].to = to.key, ![i].amount = amount]
              ELSE inv' = [inv EXCEPT
                             ![i].pc = "get_latest_blockhash",
                             ![i].to = to.key, ![i].amount = amount,
                             ![i].base_units = lamports,
                             ![i].instructions =
                                <<system_transfer(WalletKey, to.key, lamports)>>]
  /\ UNCHANGED <<actions, regCount, lastReg, regOrder, metaOut, tokenAccounts, mintKeys>>

\* self.client.get_account(&mint_pubkey)?, Mint::unpack, the scaling of
\* the amount and the check for zero
TransferGetMint(i, rpc_ok) ==
  /\ inv[i].pc = "get_mint_account"
  /\ inv[i].op.kind = "TransferAction"
  /\ LET me == [inv[i] EXCEPT !.calls = Append(@, "get_account")]
         acct == LedgerAccount(me.mint)
         units == BaseUnitsOf[me.amount, acct.decimals]
     IN
     inv' = [inv EXCEPT ![i] =
       IF ~rpc_ok \/ ~acct.exists
       THEN [me EXCEPT !.pc = "done", !.result = Err(<<"rpc: get_account">>)]
       ELSE IF ~acct.isMint
       THEN [me EXCEPT !.pc = "done", !.result = Err(<<"Mint::unpack">>)]
       ELSE IF IsZeroUnits(units)
       THEN [me EXCEPT !.pc = "done", !.result = Err(TooSmall),
                       !.decimals = acct.decimals,
                       !.token_program_id = acct.owner]
       ELSE [me EXCEPT !.pc = "get_dest_account",
                       !.decimals = acct.decimals,
                       !.token_program_id = acct.owner,
                       !.base_units = units]]
  /\ UNCHANGED <<actions, regCount, lastReg, regOrder, metaOut, tokenAccounts, mintKeys>>

\* self.client.get_account(&dest_ata).is_err(): the account is absent or
\* the query itself failed
DestQueryIsErr(rpc_ok, dest_ata, accts) == ~rpc_ok \/ dest_ata \notin accts

\* the destination query, the conditional create instruction and the
\* transfer_checked instruction
TransferGetDest(i, rpc_ok) ==
  /\ inv[i].pc = "get_dest_account"
  /\ inv[i].op.kind = "TransferAction"
  /\ LET me == [inv[i] EXCEPT !.calls = Append(@, "get_account")]
         source_ata == get_associated_token_address(WalletKey, me.mint)
         dest_ata == get_associated_token_address(me.to, me.mint)
         created ==
           IF DestQueryIsErr(rpc_ok, dest_ata, tokenAccounts)
           THEN <<create_associated_token_account(
                    WalletKey, me.to, me.mint, me.token_program_id)>>
           ELSE <<>>
         built == transfer_checked(me.token_program_id, source_ata, me.mint,
                                   dest_ata, WalletKey, me.base_units,
                                   me.decimals)
     IN
     inv' = [inv EXCEPT ![i] =
       IF ~built.ok
       THEN [me EXCEPT !.pc = "done", !.instructions = created,
                       !.destOnLedger = dest_ata \in tokenAccounts,
                       !.result = Err(<<"transfer_checked: IncorrectProgramId">>)]
       ELSE [me EXCEPT !.pc = "get_latest_blockhash",
                       !.destOnLedger = dest_ata \in tokenAccounts,
                       !.instructions = created \o <<built.ix>>]]
  /\ UNCHANGED <<actions, regCount, lastReg, regOrder, metaOut, tokenAccounts, mintKeys>>

\* a faulty engine: a failed blockhash query is ignored and the draft is
\* compiled with the default hash
TransferBlockhash_unchecked(i, r) ==
  /\ inv[i].pc = "get_latest_blockhash"
  /\ inv[i].op.kind = "TransferAction"
  /\ LET me == [inv[i] EXCEPT !.calls = Append(@, "get_latest_blockhash")]
         hash == IF r \in Blockhashes THEN r ELSE ""
     IN
     inv' = [inv EXCEPT ![i] =
       [me EXCEPT !.pc = "sign_transaction",
                  !.latest_blockhash = hash,
                  !.tx = [message |-> CompileMessage(WalletKey,
                                        me.instructions, hash),
                          signatures |-> <<>>]]]
  /\ UNCHANGED <<actions, regCount, lastReg, regOrder, metaOut, tokenAccounts, mintKeys>>

\* self.client.get_latest_blockhash()? and Message::try_compile
TransferBlockhash(i, r) ==
  /\ inv[i].pc = "get_latest_blockhash"
  /\ inv[i].op.kind = "TransferAction"
  /\ LET me == [inv[i] EXCEPT !.calls = Append(@, "get_latest_blockhash")]
     IN
     inv' = [inv EXCEPT ![i] =
       IF r \notin Blockhashes
       THEN [me EXCEPT !.pc = "done",
                       !.result = Err(<<"rpc: get_latest_blockhash">>)]
       ELSE [me EXCEPT !.pc = "sign_transaction",
                       !.latest_blockhash = r,
                       !.tx = [message |-> CompileMessage(WalletKey,
                                             me.instructions, r),
                               signatures |-> <<>>]]]
  /\ UNCHANGED <<actions, regCount, lastReg, regOrder, metaOut, tokenAccounts, mintKeys>>

\* a faulty engine: a signing failure is ignored and the unsigned draft
\* goes on to submission
AfterSign_goes_on(me, signed, signed_tx) ==
  [me EXCEPT !.pc = "send_and_confirm",
             !.calls = Append(@, "sign_transaction"),
             !.outcome = IF signed THEN @ ELSE "SigningUnavailable",
             !.tx = IF signed THEN signed_tx ELSE @]

\* what became of a draft handed to Wallet::sign_transaction: the wallet is
\* an Arc<dyn Wallet>, whose sign_transaction may return an error
\* (KeypairWallet's never does); `?` then ends the call
AfterSign(me, signed, signed_tx) ==
  IF signed
  THEN [me EXCEPT !.pc = "send_and_confirm",
                  !.calls = Append(@, "sign_transaction"),
                  !.tx = signed_tx]
  ELSE [me EXCEPT !.pc = "done",
                  !.calls = Append(@, "sign_transaction"),
                  !.outcome = "SigningUnavailable",
                  !.result = Err(<<"wallet: sign_transaction">>)]

\* self.wallet.sign_transaction(tx).await?
TransferSign(i, signed) ==
  /\ inv[i].pc = "sign_transaction"
  /\ inv[i].op.kind = "TransferAction"
  /\ inv' = [inv EXCEPT ![i] =
               AfterSign(inv[i], signed, sign_transaction(inv[i].tx))]
  /\ UNCHANGED <<actions, regCount, lastReg, regOrder, metaOut, tokenAccounts, mintKeys>>

\* a faulty engine: a declined submission is reported like an accepted one
Submit_swallow(tx, accept, accts) ==
  IF accept /\ NetworkCanAccept(tx, accts)
  THEN [ok |-> TRUE, signature |-> tx.signatures[1],
        accts |-> ApplyInstructions(accts, tx.message.instructions).accts]
  ELSE [ok |-> TRUE, signature |-> ZeroSig, accts |-> accts]

\* what client.send_and_confirm_transaction returns: the first signature
\* of an accepted transaction, or an error
Submit(tx, accept, accts) ==
  IF accept /\ NetworkCanAccept(tx, accts)
  THEN [ok |-> TRUE, signature |-> tx.signatures[1],
        accts |-> ApplyInstructions(accts, tx.message.instructions).accts]
  ELSE [ok |-> FALSE, signature |-> ZeroSig, accts |-> accts]

\* a faulty engine: a rejected submission starts over at the blockhash
SendOutcomePc_retry(ok) == IF ok THEN "done" ELSE "get_latest_blockhash"

\* where Agent::transfer goes after send_and_confirm_transaction(..)?: it
\* returns, with the signature or with the error
SendOutcomePc(ok) == "done"

\* the result TransferAction::call wraps a transfer signature in
TransferResult(signature) == [signature |-> JSigStr(signature)]

\* self.client.send_and_confirm_transaction(&signed_tx)? and the result of
\* TransferAction::call
TransferSend(i, accept) ==
  /\ inv[i].pc = "send_and_confirm"
  /\ inv[i].op.kind = "TransferAction"
  /\ LET out == Submit(inv[i].tx, accept, tokenAccounts)
         me == [inv[i] EXCEPT
                  !.calls = Append(@, "send_and_confirm_transaction"),
                  !.sent = Append(@, inv[i].tx),
                  !.outcome = IF out.ok THEN "Confirmed" ELSE "Rejected"]
     IN  /\ inv' = [inv EXCEPT ![i] =
              IF out.ok
              THEN [me EXCEPT !.pc = SendOutcomePc(TRUE),
                              !.result = Ok(TransferResult(out.signature))]
              ELSE [me EXCEPT !.pc = SendOutcomePc(FALSE),
                              !.result = Err(<<"rpc: send_and_confirm_transaction">>)]]
         /\ tokenAccounts' = out.accts
  /\ UNCHANGED <<actions, regCount, lastReg, regOrder, metaOut, mintKeys>>
(***************************************************************************)
(* MINT_NFT and DEPLOY_COLLECTION (nft_actions.rs): a transaction with two *)
(* required signers, the wallet and a freshly generated mint keypair.      *)
(***************************************************************************)

\* serde_json::from_value::<Input>: `name` and `uri` are required strings;
\* the optional members are those of the operation's own Input struct
\* (DEPLOY_COLLECTION has no `recipient` and ignores one it is given)
NftInputParses(kind, input) ==
  /\ "name" \in DOMAIN input
  /\ IsJStr(input["name"])
  /\ "uri" \in DOMAIN input
  /\ IsJStr(input["uri"])
  /\ OptionalParse(kind, input)

\* Pubkey::find_program_address(seeds, &mpl_token_metadata::ID): an address
\* that is a function of the seeds
find_program_address(seeds) ==
  LET RECURSIVE join(_)
      join(q) == IF q = <<>> THEN "" ELSE ":" \o Head(q) \o join(Tail(q))
  IN  "pda" \o join(seeds)

\* the metadata account and the master edition account of a mint
metadata_pda(mint) == find_program_address(<<"metadata", "TokenMetadata", mint>>)
edition_pda(mint) ==
  find_program_address(<<"metadata", "TokenMetadata", mint, "edition">>)

\* an instruction of the mint, reduced to its program and its signers
nft_instruction(program, ix, signers) ==
  [program |-> program, ix |-> ix, signers |-> signers]

\* the accounts an instruction of the mint brings into being and the
\* existing accounts it writes: the mint account, the recipient's token
\* account, the metadata account and the edition account
NftAccounts(x) ==
  CASE x.ix = "create_account" -> [creates |-> {"mint"}, writes |-> {}]
    [] x.ix = "initialize_mint" -> [creates |-> {}, writes |-> {"mint"}]
    [] x.ix = "create" -> [creates |-> {"ata"}, writes |-> {}]
    [] x.ix = "mint_to" -> [creates |-> {}, writes |-> {"mint", "ata"}]
    [] x.ix = "create_metadata_account_v3" ->
         [creates |-> {"metadata"}, writes |-> {}]
    [] x.ix = "create_master_edition_v3" ->
         [creates |-> {"edition"}, writes |-> {"mint", "metadata"}]
    [] OTHER -> [creates |-> {}, writes |-> {}]

\* a faulty composition: the token is minted before the recipient's token
\* account is created
NftInstructions_mint_first(payer, mint, recipient) ==
  << nft_instruction(SystemProgramId, "create_account", {payer, mint}),
     nft_instruction(SplTokenId, "initialize_mint", {}),
     nft_instruction(SplTokenId, "mint_to", {payer}),
     create_associated_token_account(payer, recipient, mint, SplTokenId),
     nft_instruction("TokenMetadata", "create_metadata_account_v3", {payer}),
     nft_instruction("TokenMetadata", "create_master_edition_v3", {payer}) >>

\* the six instructions both operations push, in order
NftInstructions(payer, mint, recipient) ==
  << nft_instruction(SystemProgramId, "create_account", {payer, mint}),
     nft_instruction(SplTokenId, "initialize_mint", {}),
     create_associated_token_account(payer, recipient, mint, SplTokenId),
     nft_instruction(SplTokenId, "mint_to", {payer}),
     nft_instruction("TokenMetadata", "create_metadata_account_v3", {payer}),
     nft_instruction("TokenMetadata", "create_master_edition_v3", {payer}) >>

\* the call up to Keypair::new(): the input is parsed; MINT_NFT parses the
\* recipient it is given (the wallet otherwise) and then the collection
\* mint it is given, and either may fail before a key is generated
NftActionCall(i, key) ==
  /\ inv[i].pc = "call"
  /\ inv[i].op.kind \in NftKinds
  /\ LET input == inv[i].input
         kind == inv[i].op.kind
         recipient == IF kind = "MintNftAction"
                      THEN OptionalString(input, "recipient")
                      ELSE [some |-> FALSE, str |-> ""]
         collection == IF kind = "MintNftAction"
                       THEN OptionalString(input, "collectionMint")
                       ELSE [some |-> FALSE, str |-> ""]
     IN
     IF ~NftInputParses(kind, input)
     THEN inv' = Finish(i, Err(<<"serde_json: invalid input">>))
     ELSE IF recipient.some /\ ~PubkeyFromStr(recipient.str).ok
     THEN inv' = Finish(i, Err(<<"Invalid recipient address: ",
                                  "ParsePubkeyError">>))
     ELSE IF collection.some /\ ~PubkeyFromStr(collection.str).ok
     THEN inv' = Finish(i, Err(<<"Invalid collection mint: ",
                                  "ParsePubkeyError">>))
     ELSE inv' = [inv EXCEPT
                    ![i].pc = "get_rent",
                    ![i].to = IF recipient.some THEN recipient.str
                              ELSE WalletKey,
                    ![i].mint_keypair = key,
                    ![i].mint = key]
  /\ mintKeys' = IF inv'[i].pc = "get_rent" THEN Append(mintKeys, key)
                 ELSE mintKeys
  /\ UNCHANGED <<actions, regCount, lastReg, regOrder, metaOut, tokenAccounts>>

\* get_minimum_balance_for_rent_exemption(Mint::LEN)? and the instructions
NftGetRent(i, rpc_ok) ==
  /\ inv[i].pc = "get_rent"
  /\ inv[i].op.kind \in NftKinds
  /\ LET me == [inv[i] EXCEPT
                  !.calls = Append(@, "get_minimum_balance_for_rent_exemption")]
     IN
     inv' = [inv EXCEPT ![i] =
       IF ~rpc_ok
       THEN [me EXCEPT !.pc = "done",
                       !.result = Err(<<"rpc: get_minimum_balance">>)]
       ELSE [me EXCEPT !.pc = "get_latest_blockhash",
                       !.instructions =
                          NftInstructions(WalletKey, me.mint, me.to)]]
  /\ UNCHANGED <<actions, regCount, lastReg, regOrder, metaOut, tokenAccounts, mintKeys>>

\* get_latest_blockhash()?, try_compile and the unsigned transaction
NftBlockhash(i, r) ==
  /\ inv[i].pc = "get_latest_blockhash"
  /\ inv[i].op.kind \in NftKinds
  /\ LET me == [inv[i] EXCEPT !.calls = Append(@, "get_latest_blockhash")]
     IN
     inv' = [inv EXCEPT ![i] =
       IF r \notin Blockhashes
       THEN [me EXCEPT !.pc = "done",
                       !.result = Err(<<"rpc: get_latest_blockhash">>)]
       ELSE [me EXCEPT !.pc = "sign_transaction",
                       !.latest_blockhash = r,
                       !.tx = [message |-> CompileMessage(WalletKey,
                                             me.instructions, r),
                               signatures |-> <<>>]]]
  /\ UNCHANGED <<actions, regCount, lastReg, regOrder, metaOut, tokenAccounts, mintKeys>>

\* the mint signature is put at index 1 if the list has two entries and is
\* pushed otherwise
AddMintSignature(tx, mint_sig) ==
  IF Len(tx.signatures) >= 2
  THEN [tx EXCEPT !.signatures[2] = mint_sig]
  ELSE [tx EXCEPT !.signatures = Append(@, mint_sig)]

\* mint_keypair.sign_message, agent.wallet.sign_transaction(tx).await? and
\* the placement of the mint signature
NftSign(i, signed) ==
  /\ inv[i].pc = "sign_transaction"
  /\ inv[i].op.kind \in NftKinds
  /\ LET mint_sig == Sig(inv[i].mint_keypair, inv[i].tx.message)
     IN  inv' = [inv EXCEPT ![i] =
                   AfterSign(inv[i], signed,
                             AddMintSignature(sign_transaction(inv[i].tx),
                                              mint_sig))]
  /\ UNCHANGED <<actions, regCount, lastReg, regOrder, metaOut, tokenAccounts, mintKeys>>

\* the success value of MINT_NFT / DEPLOY_COLLECTION; `symbol` is the one
\* given or "", `royaltyBasisPoints` the one given or 500
NftResult(kind, me, signature) ==
  LET symbol == OptionalString(me.input, "symbol")
      royalty == IF "royaltyBasisPoints" \in DOMAIN me.input
                    /\ IsJInt(me.input["royaltyBasisPoints"])
                 THEN me.input["royaltyBasisPoints"] ELSE JInt(500)
  IN
  IF kind = "MintNftAction"
  THEN [status |-> JStr("success"), mint |-> JStr(me.mint),
        metadata |-> JStr(metadata_pda(me.mint)),
        masterEdition |-> JStr(edition_pda(me.mint)),
        tokenAccount |-> JStr(get_associated_token_address(me.to, me.mint)),
        recipient |-> JStr(me.to), signature |-> JSigStr(signature),
        name |-> me.input["name"], symbol |-> JStr(symbol.str)]
  ELSE [status |-> JStr("success"), collectionAddress |-> JStr(me.mint),
        metadata |-> JStr(metadata_pda(me.mint)),
        masterEdition |-> JStr(edition_pda(me.mint)),
        signature |-> JSigStr(signature), name |-> me.input["name"],
        symbol |-> JStr(symbol.str), royaltyBasisPoints |-> royalty]

\* send_and_confirm_transaction(&final_tx)? and the result
NftSend(i, accept) ==
  /\ inv[i].pc = "send_and_confirm"
  /\ inv[i].op.kind \in NftKinds
  /\ LET out == Submit(inv[i].tx, accept, tokenAccounts)
         me == [inv[i] EXCEPT
                  !.calls = Append(@, "send_and_confirm_transaction"),
                  !.sent = Append(@, inv[i].tx),
                  !.outcome = IF out.ok THEN "Confirmed" ELSE "Rejected"]
     IN  /\ inv' = [inv EXCEPT ![i] =
              IF out.ok
              THEN [me EXCEPT !.pc = "done",
                              !.result = Ok(NftResult(me.op.kind, me,
                                                      out.signature))]
              ELSE [me EXCEPT !.pc = "done",
                              !.result = Err(<<"rpc: send_and_confirm_transaction">>)]]
         /\ tokenAccounts' = out.accts
  /\ UNCHANGED <<actions, regCount, lastReg, regOrder, metaOut, mintKeys>>

(***************************************************************************)
(* Operations that sign and submit a transaction a third-party service     *)
(* serialized: TRADE, CREATE_LIMIT_ORDER (token_actions.rs),                *)
(* STAKE_WITH_SOLAYER (defi_actions.rs), LIST_MAGICEDEN_NFT and             *)
(* BID_ON_MAGICEDEN_NFT (nft_actions.rs).                                   *)
(***************************************************************************)
ThirdPartyKinds ==
  {"TradeAction", "CreateLimitOrderAction", "StakeWithSolayerAction",
   "ListMagicEdenNftAction", "BidOnMagicEdenNftAction"}

\* the operations that read response.status(): each returns an error value
\* where it is no success; TRADE reads the body without looking at it
ChecksHttpStatus(kind) == kind # "TradeAction"

\* the operations that replace the blockhash of the received transaction
RefreshesBlockhash(kind) ==
  kind \in {"TradeAction", "CreateLimitOrderAction", "StakeWithSolayerAction"}

\* the required fields of each operation's Input struct, strings and numbers
RequiredStrings(kind) ==
  CASE kind = "TradeAction" -> {"outputMint"}
    [] kind = "CreateLimitOrderAction" ->
         {"inputMint", "outputMint", "inAmount", "outAmount"}
    [] kind = "StakeWithSolayerAction" -> {}
    [] kind = "ListMagicEdenNftAction" ->
         {"tokenMint", "tokenAccount", "magicEdenApiKey"}
    [] kind = "BidOnMagicEdenNftAction" -> {"tokenMint", "magicEdenApiKey"}

RequiredNumbers(kind) ==
  CASE kind = "TradeAction" -> {"inputAmount"}
    [] kind = "CreateLimitOrderAction" -> {}
    [] kind = "StakeWithSolayerAction" -> {"amount"}
    [] kind = "ListMagicEdenNftAction" -> {"price"}
    [] kind = "BidOnMagicEdenNftAction" -> {"price"}

\* serde_json::from_value::<Input>(input) succeeds
ThirdPartyInputParses(kind, input) ==
  /\ \A f \in RequiredStrings(kind) : f \in DOMAIN input /\ IsJStr(input[f])
  /\ \A f \in RequiredNumbers(kind) :
       f \in DOMAIN input /\ JHasType(input[f], "f64")
  /\ OptionalParse(kind, input)

\* a transaction as a service serializes it: the message names its required
\* signers, and the signature list holds what the service put there
ServiceMessage(signers) ==
  [payer |-> WalletKey, signers |-> signers,
   instructions |-> <<nft_instruction("ServiceProgram", "service", {})>>,
   recent_blockhash |-> "bhService"]

\* the wallet is the only signer and its slot holds the placeholder
TxOneSlot ==
  [message |-> ServiceMessage(<<WalletKey>>), signatures |-> <<ZeroSig>>]
\* the wallet is the only signer and the list is empty
TxNoSlot ==
  [message |-> ServiceMessage(<<WalletKey>>), signatures |-> <<>>]
\* the service's own key signed already, the wallet's slot is a placeholder
TxTwoSlots ==
  [message |-> ServiceMessage(<<WalletKey, "ServiceKey">>),
   signatures |-> <<ZeroSig,
                    Sig("ServiceKey", ServiceMessage(<<WalletKey, "ServiceKey">>))>>]

ServiceTxs == {TxOneSlot, TxNoSlot, TxTwoSlots}

\* what client.send().await yields: no response, or a response with a
\* status line
HttpTransportError == "transport error"
HttpStatuses == {"200 OK", "500 Internal Server Error"}
SendOutcomes == {HttpTransportError} \cup HttpStatuses

\* StatusCode::is_success
is_success(status) == status = "200 OK"

\* what reading the body of a response yields: the text and, where the
\* text is JSON, the value it spells; or a failure of the connection
Body(text, value) ==
  [read |-> TRUE, json |-> TRUE, text |-> text, value |-> value]
BodyNotJson(text) ==
  [read |-> TRUE, json |-> FALSE, text |-> text, value |-> JNull]
BodyUnread == [read |-> FALSE, json |-> FALSE, text |-> "", value |-> JNull]

\* response.json().await
ReadJson(b) ==
  IF b.read /\ b.json THEN [ok |-> TRUE, value |-> b.value]
  ELSE [ok |-> FALSE, value |-> JNull]

\* response.text().await
ReadText(b) ==
  IF b.read THEN [ok |-> TRUE, text |-> b.text] ELSE [ok |-> FALSE, text |-> ""]

\* the operations whose service encodes the transaction in base64, and the
\* member that holds it
Base64Kinds ==
  {"TradeAction", "CreateLimitOrderAction", "StakeWithSolayerAction"}
MagicEdenKinds == {"ListMagicEdenNftAction", "BidOnMagicEdenNftAction"}

TxMember(kind) ==
  CASE kind = "TradeAction" -> "swapTransaction"
    [] kind = "CreateLimitOrderAction" -> "tx"
    [] kind = "StakeWithSolayerAction" -> "transaction"

\* base64_decode: the bytes of the strings drawn here; a string that is no
\* base64 fails
base64_decode(str) ==
  CASE str = "AQ==" -> [ok |-> TRUE, bytes |-> <<1>>]
    [] str = "Ag==" -> [ok |-> TRUE, bytes |-> <<2>>]
    [] str = "Aw==" -> [ok |-> TRUE, bytes |-> <<3>>]
    [] str = "BA==" -> [ok |-> TRUE, bytes |-> <<4>>]
    [] OTHER -> [ok |-> FALSE, bytes |-> <<>>]

\* bincode::deserialize::<VersionedTransaction>: the byte strings that are
\* the serializations of the three transactions; every other one fails
DeserializeTransaction(bytes) ==
  CASE bytes = <<1>> -> [ok |-> TRUE, tx |-> TxOneSlot]
    [] bytes = <<2>> -> [ok |-> TRUE, tx |-> TxNoSlot]
    [] bytes = <<3>> -> [ok |-> TRUE, tx |-> TxTwoSlots]
    [] OTHER -> [ok |-> FALSE, tx |-> NoTx]

\* .iter().filter_map(|v| v.as_u64().map(|n| n as u8)).collect(): the
\* non-negative integers of the array, each reduced to a byte
ByteArray(arr) ==
  LET isU64(v) == IsJInt(v) /\ v.int >= 0
      kept == SelectSeq(arr, isU64)
  IN  [k \in 1..Len(kept) |-> kept[k].int % 256]

\* the anyhow! message for a response without the transaction
NoTransactionMessage(kind) ==
  IF kind = "TradeAction" THEN "No swapTransaction in response"
  ELSE "No transaction in response"

\* the transaction in the JSON value of a response, or the failure the
\* call ends in
ExtractTransaction(kind, data) ==
  IF kind \in MagicEdenKinds
  THEN LET tx_signed == JGet(JIndex(data, "txSigned"), "data")
           got == DeserializeTransaction(ByteArray(tx_signed.value.arr))
       IN  IF ~JGet(data, "txSigned").some \/ ~tx_signed.some
           THEN [ok |-> FALSE, tx |-> NoTx,
                 err |-> <<"Invalid response from MagicEden API: missing txSigned.data">>]
           ELSE IF ~IsJArr(tx_signed.value)
           THEN [ok |-> FALSE, tx |-> NoTx,
                 err |-> <<"txSigned.data is not an array">>]
           ELSE IF ~got.ok
           THEN [ok |-> FALSE, tx |-> NoTx,
                 err |-> <<"Failed to deserialize transaction: ", "bincode">>]
           ELSE [ok |-> TRUE, tx |-> got.tx, err |-> <<>>]
  ELSE LET tx_b64 == JIndex(data, TxMember(kind))
           bytes == base64_decode(tx_b64.str)
           got == DeserializeTransaction(bytes.bytes)
       IN  IF ~IsJStr(tx_b64)
           THEN [ok |-> FALSE, tx |-> NoTx, err |-> <<NoTransactionMessage(kind)>>]
           ELSE IF ~bytes.ok
           THEN [ok |-> FALSE, tx |-> NoTx, err |-> <<"base64">>]
           ELSE IF ~got.ok
           THEN [ok |-> FALSE, tx |-> NoTx, err |-> <<"bincode">>]
           ELSE [ok |-> TRUE, tx |-> got.tx, err |-> <<>>]

\* the message of the error value for a response whose status is no
\* success: the `message` of the body or a fixed text (STAKE_WITH_SOLAYER),
\* the text of the body (Magic Eden); an unreadable body counts as {} and ""
NonSuccessMessage(kind, b) ==
  IF kind = "StakeWithSolayerAction"
  THEN LET error_data == IF ReadJson(b).ok THEN b.value ELSE EmptyObject
           message == JIndex(error_data, "message")
       IN  IF IsJStr(message) THEN message.str ELSE "Staking request failed"
  ELSE "MagicEden API error: " \o ReadText(b).text

\* bodies a service may answer with, whatever the status: none that could
\* be read, no JSON, JSON without a transaction
PlainBodies ==
  << BodyUnread, BodyNotJson("Bad Gateway"), Body("{}", EmptyObject),
     Body("{\"message\":\"boom\"}", [message |-> JStr("boom")]) >>

\* a body with the base64 string str as the transaction member
Base64Body(kind, str) ==
  Body("{\"" \o TxMember(kind) \o "\":\"" \o str \o "\"}",
       (TxMember(kind) :> JStr(str)))

\* a body with `data` as txSigned.data
MagicEdenBody(text, data) ==
  Body("{\"txSigned\":{\"data\":" \o text \o "}}", [txSigned |-> [data |-> data]])

\* the bodies the service of an operation answers with: the plain ones,
\* the three transactions, bytes that are no transaction, and a member
\* that is no base64 or no array
ThirdPartyBodies(kind) ==
  IF kind \in Base64Kinds
  THEN PlainBodies \o
       << Base64Body(kind, "AQ=="), Base64Body(kind, "Ag=="),
          Base64Body(kind, "Aw=="), Base64Body(kind, "BA=="),
          Base64Body(kind, "!") >>
  ELSE IF kind \in MagicEdenKinds
  THEN PlainBodies \o
       << MagicEdenBody("[1]", JArr(<<JInt(1)>>)),
          MagicEdenBody("[2]", JArr(<<JInt(2)>>)),
          MagicEdenBody("[3]", JArr(<<JInt(3)>>)),
          MagicEdenBody("[4]", JArr(<<JInt(4)>>)),
          MagicEdenBody("[18.5,257]", JArr(<<JNum(Amt_18_5), JInt(257)>>)),
          MagicEdenBody("\"AQ==\"", JStr("AQ==")),
          Body("{\"txSigned\":{}}", [txSigned |-> EmptyObject]) >>
  ELSE <<>>

\* the bodies Jupiter's quote endpoint answers with
QuoteBodies ==
  << BodyUnread, BodyNotJson("Bad Gateway"), Body("{}", EmptyObject) >>

\* the call up to the first HTTP request
ThirdPartyCall(i) ==
  /\ inv[i].pc = "call"
  /\ inv[i].op.kind \in ThirdPartyKinds
  /\ inv' = IF ~ThirdPartyInputParses(inv[i].op.kind, inv[i].input)
            THEN Finish(i, Err(<<"serde_json: invalid input">>))
            ELSE [inv EXCEPT ![i].pc =
                    IF inv[i].op.kind = "TradeAction" THEN "http_quote"
                    ELSE "http"]
  /\ UNCHANGED <<actions, regCount, lastReg, regOrder, metaOut, tokenAccounts, mintKeys>>

\* TRADE's quote request up to the response: client.get(&quote_url)
\* .send().await?; the status is not read
TradeQuote(i, r) ==
  /\ inv[i].pc = "http_quote"
  /\ inv[i].op.kind = "TradeAction"
  /\ LET me == [inv[i] EXCEPT !.calls = Append(@, "http")]
     IN  inv' = [inv EXCEPT ![i] =
           IF r = HttpTransportError
           THEN [me EXCEPT !.pc = "done", !.result = Err(<<"reqwest">>)]
           ELSE [me EXCEPT !.pc = "http_quote_body", !.http_status = r,
                           !.downstream = IF is_success(r) THEN @
                                          ELSE "non-2xx"]]
  /\ UNCHANGED <<actions, regCount, lastReg, regOrder, metaOut, tokenAccounts, mintKeys>>

\* the body of the quote: .json().await?
TradeQuoteBody(i, b) ==
  /\ inv[i].pc = "http_quote_body"
  /\ inv[i].op.kind = "TradeAction"
  /\ LET me == [inv[i] EXCEPT !.http_status = ""]
     IN  inv' = [inv EXCEPT ![i] =
           IF ~ReadJson(b).ok
           THEN [me EXCEPT !.pc = "done", !.result = Err(<<"reqwest">>)]
           ELSE [me EXCEPT !.pc = "http"]]
  /\ UNCHANGED <<actions, regCount, lastReg, regOrder, metaOut, tokenAccounts, mintKeys>>

\* the request that yields the transaction, up to the response:
\* .send().await?, and the status check of CREATE_LIMIT_ORDER, which
\* returns without reading the body
ThirdPartyHttp(i, r) ==
  /\ inv[i].pc = "http"
  /\ inv[i].op.kind \in ThirdPartyKinds
  /\ LET me == [inv[i] EXCEPT !.calls = Append(@, "http")]
         kind == me.op.kind
     IN  inv' = [inv EXCEPT ![i] =
           IF r = HttpTransportError
           THEN [me EXCEPT !.pc = "done", !.result = Err(<<"reqwest">>)]
           ELSE IF ~is_success(r) /\ kind = "CreateLimitOrderAction"
           THEN [me EXCEPT !.pc = "done", !.downstream = "non-2xx",
                           !.result = Ok(ErrorValue("Jupiter API error: " \o r))]
           ELSE [me EXCEPT !.pc = "http_body", !.http_status = r,
                           !.downstream = IF is_success(r) THEN @
                                          ELSE "non-2xx"]]
  /\ UNCHANGED <<actions, regCount, lastReg, regOrder, metaOut, tokenAccounts, mintKeys>>

\* the body of that response and the code up to the next call: the error
\* value of the operations that read the status, .json().await?, the
\* transaction member and its deserialization
ThirdPartyBody(i, b) ==
  /\ inv[i].pc = "http_body"
  /\ inv[i].op.kind \in ThirdPartyKinds
  /\ LET me == [inv[i] EXCEPT !.http_status = ""]
         kind == me.op.kind
         data == ReadJson(b)
         found == ExtractTransaction(kind, data.value)
     IN  inv' = [inv EXCEPT ![i] =
           IF ChecksHttpStatus(kind) /\ ~is_success(inv[i].http_status)
           THEN [me EXCEPT !.pc = "done",
                           !.result = Ok(ErrorValue(NonSuccessMessage(kind, b)))]
           ELSE IF ~data.ok
           THEN [me EXCEPT !.pc = "done", !.result = Err(<<"reqwest">>)]
           ELSE IF ~found.ok
           THEN [me EXCEPT !.pc = "done", !.result = Err(found.err)]
           ELSE [me EXCEPT !.pc = IF RefreshesBlockhash(kind)
                                  THEN "get_latest_blockhash"
                                  ELSE "sign_transaction",
                           !.tx = found.tx,
                           !.instructions = found.tx.message.instructions]]
  /\ UNCHANGED <<actions, regCount, lastReg, regOrder, metaOut, tokenAccounts, mintKeys>>

\* get_latest_blockhash()? and transaction.message.set_recent_blockhash
ThirdPartyBlockhash(i, r) ==
  /\ inv[i].pc = "get_latest_blockhash"
  /\ inv[i].op.kind \in ThirdPartyKinds
  /\ LET me == [inv[i] EXCEPT !.calls = Append(@, "get_latest_blockhash")]
     IN
     inv' = [inv EXCEPT ![i] =
       IF r \notin Blockhashes
       THEN [me EXCEPT !.pc = "done",
                       !.result = Err(<<"rpc: get_latest_blockhash">>)]
       ELSE [me EXCEPT !.pc = "sign_transaction",
                       !.latest_blockhash = r,
                       !.tx.message.recent_blockhash = r]]
  /\ UNCHANGED <<actions, regCount, lastReg, regOrder, metaOut, tokenAccounts, mintKeys>>

\* agent.wallet.sign_transaction(transaction).await?
ThirdPartySign(i, signed) ==
  /\ inv[i].pc = "sign_transaction"
  /\ inv[i].op.kind \in ThirdPartyKinds
  /\ inv' = [inv EXCEPT ![i] =
               AfterSign(inv[i], signed, sign_transaction(inv[i].tx))]
  /\ UNCHANGED <<actions, regCount, lastReg, regOrder, metaOut, tokenAccounts, mintKeys>>

\* the success value of a third-party operation, from the parsed input
\* and the signature of the submission
ThirdPartyResult(kind, input, signature) ==
  CASE kind = "TradeAction" ->
         [status |-> JStr("success"),
          message |-> JStr("Trade executed successfully"),
          transaction |-> JSigStr(signature)]
    [] kind = "CreateLimitOrderAction" ->
         [status |-> JStr("success"), signature |-> JSigStr(signature)]
    [] kind = "StakeWithSolayerAction" ->
         [status |-> JStr("success"), transaction |-> JSigStr(signature),
          message |-> JStr("Successfully staked "
                           \o F64Display(JAsF64(input["amount"]))
                           \o " SOL for Solayer SOL (sSOL)")]
    [] kind = "ListMagicEdenNftAction" ->
         [status |-> JStr("success"),
          message |-> JStr("NFT listed successfully on MagicEden"),
          signature |-> JSigStr(signature),
          tokenMint |-> JStr(input["tokenMint"].str),
          price |-> JNum(JAsF64(input["price"]))]
    [] kind = "BidOnMagicEdenNftAction" ->
         [status |-> JStr("success"),
          message |-> JStr("Bid placed successfully on MagicEden"),
          signature |-> JSigStr(signature),
          tokenMint |-> JStr(input["tokenMint"].str),
          bidPrice |-> JNum(JAsF64(input["price"]))]

\* send_and_confirm_transaction(&signed_tx)? and the result
ThirdPartySend(i, accept) ==
  /\ inv[i].pc = "send_and_confirm"
  /\ inv[i].op.kind \in ThirdPartyKinds
  /\ LET out == Submit(inv[i].tx, accept, tokenAccounts)
         me == [inv[i] EXCEPT
                  !.calls = Append(@, "send_and_confirm_transaction"),
                  !.sent = Append(@, inv[i].tx),
                  !.outcome = IF out.ok THEN "Confirmed" ELSE "Rejected"]
     IN  /\ inv' = [inv EXCEPT ![i] =
              IF out.ok
              THEN [me EXCEPT !.pc = "done",
                              !.result = Ok(ThirdPartyResult(me.op.kind,
                                              me.input, out.signature))]
              ELSE [me EXCEPT !.pc = "done",
                              !.result = Err(<<"rpc: send_and_confirm_transaction">>)]]
         /\ tokenAccounts' = out.accts
  /\ UNCHANGED <<actions, regCount, lastReg, regOrder, metaOut, mintKeys>>

(***************************************************************************)
(* Operations that ask a service or the ledger and sign nothing:            *)
(* SEND_TRANSACTION_WITH_PRIORITY (misc_actions.rs), FETCH_PRICE,           *)
(* PYTH_FETCH_PRICE and BALANCE_ACTION (token_actions.rs, agent.rs).        *)
(***************************************************************************)
QueryKinds ==
  {"SendTransactionWithPriorityAction", "FetchPriceAction",
   "PythFetchPriceAction", "GetBalanceAction"}

\* the required (String) fields of each operation's Input struct
QueryRequired(kind) ==
  CASE kind = "SendTransactionWithPriorityAction" ->
         {"transaction", "heliusApiKey"}
    [] kind = "FetchPriceAction" -> {"tokenAddress"}
    [] kind = "PythFetchPriceAction" -> {"tokenSymbol"}
    [] kind = "GetBalanceAction" -> {}

\* serde_json::from_value::<Input>(input) succeeds
QueryInputParses(kind, input) ==
  /\ \A f \in QueryRequired(kind) : f \in DOMAIN input /\ IsJStr(input[f])
  /\ OptionalParse(kind, input)

\* BALANCE_ACTION was given a token address
BalanceHasMint(input) ==
  "tokenAddress" \in DOMAIN input /\ IsJStr(input.tokenAddress)

\* what the ledger answers to a balance query: an error or an amount
BalanceAnswers ==
  {[ok |-> FALSE]} \cup { [ok |-> TRUE, amount |-> a] : a \in {Amt_0, Amt_5} }

\* the call up to the first request
QueryCall(i) ==
  /\ inv[i].pc = "call"
  /\ inv[i].op.kind \in QueryKinds
  /\ LET kind == inv[i].op.kind
         input == inv[i].input
     IN  inv' =
           IF ~QueryInputParses(kind, input)
           THEN Finish(i, Err(<<"serde_json: invalid input">>))
           ELSE IF kind = "GetBalanceAction"
           THEN IF BalanceHasMint(input)
                   /\ ~PubkeyFromStr(input.tokenAddress.str).ok
                THEN Finish(i, Err(<<"Invalid pubkey">>))
                ELSE [inv EXCEPT ![i].pc = "get_balance",
                                 ![i].mint =
                                   IF BalanceHasMint(input)
                                   THEN input.tokenAddress.str ELSE ""]
           ELSE [inv EXCEPT ![i].pc = "http"]
  /\ UNCHANGED <<actions, regCount, lastReg, regOrder, metaOut, tokenAccounts, mintKeys>>

\* SendTransactionWithPriorityAction::call from the body on: an unreadable
\* body propagates, an "error" member (null too) becomes an error value
\* with its JSON text, anything else a success value with the `result`
\* member; the status is not read
SendWithPriorityAnswer(me, b) ==
  LET data == ReadJson(b)
      error == JGet(data.value, "error")
      given == OptionalString(me.input, "priorityLevel")
  IN  IF ~data.ok
      THEN [me EXCEPT !.pc = "done", !.result = Err(<<"reqwest">>)]
      ELSE IF error.some
      THEN [me EXCEPT !.pc = "done", !.outcome = "Rejected",
                      !.result = Ok(ErrorValue("Transaction failed: "
                                               \o JsonText(error.value)))]
      ELSE [me EXCEPT !.pc = "done", !.outcome = "Submitted",
                      !.result = Ok([status |-> JStr("success"),
                                     signature |-> JIndex(data.value, "result"),
                                     priorityLevel |->
                                       IF given.some THEN JStr(given.str)
                                       ELSE JStr("medium")])]

\* FetchPriceAction::call from the body on: data["data"][tokenAddress]
\* ["price"] as it stands if it is a non-empty string, in the notation of
\* f64's Display if it is a number, and "N/A" otherwise
FetchPriceAnswer(me, b) ==
  LET data == ReadJson(b)
      p == JIndex(JIndex(JIndex(data.value, "data"),
                         me.input["tokenAddress"].str), "price")
      price == IF IsJStr(p) THEN p.str ELSE ""
      price_str == IF price # "" THEN price
                   ELSE IF IsJNum(p) \/ IsJInt(p) THEN F64Display(JAsF64(p))
                   ELSE "N/A"
  IN  IF ~data.ok
      THEN [me EXCEPT !.pc = "done", !.result = Err(<<"reqwest">>)]
      ELSE IF price_str = "N/A"
      THEN [me EXCEPT !.pc = "done",
                      !.result = Ok(ErrorValue(
                        "Price data not available for the given token"))]
      ELSE [me EXCEPT !.pc = "done",
                      !.result = Ok([status |-> JStr("success"),
                                     price |-> JStr(price_str),
                                     message |-> JStr("Current price: $"
                                                      \o price_str \o " USDC")])]

\* the feed PythFetchPriceAction::call picks: the first whose
\* attributes.base is the symbol, letter case aside, else the first
PythFeed(feed_array, symbol) ==
  LET matches(f) ==
        LET base == JIndex(JIndex(f, "attributes"), "base")
        IN  IsJStr(base) /\ to_lowercase(base.str) = to_lowercase(symbol)
      found == { k \in 1..Len(feed_array) : matches(feed_array[k]) }
  IN  IF found = {} THEN feed_array[1]
      ELSE feed_array[CHOOSE k \in found : \A j \in found : k <= j]

\* price.parse().unwrap_or(0.0)
ParseOrZero(got) == IF got.ok THEN got.value ELSE F64Zero

\* format!("{:.2}", price_num * 10f64.powi(expo as i32))
PythFormat(price, expo) ==
  F64Fixed(F64Mul(ParseOrZero(ParseF64(price)), F64Powi(F64Ten, expo)), 2)

\* the text and the exponent PythFetchPriceAction::call reads from
\* price.price and price.expo: a price that is an integer reads as "", one
\* that is neither a string nor an integer as "0"; an exponent that is no
\* integer reads as 0
PythRead(pp, ex) ==
  PythFormat(IF IsJStr(pp) THEN pp.str ELSE IF IsJInt(pp) THEN <<>>
             ELSE <<"0">>,
             IF IsJInt(ex) THEN ex.int ELSE 0)

\* the price PythFetchPriceAction::call reports for the first element of
\* `parsed`: price.price parsed as an f64 (0.0 where it is no string or
\* does not parse) times 10f64.powi(price.expo), with two decimals
PythPrice(parsed_data) ==
  PythRead(JIndex(JIndex(parsed_data, "price"), "price"),
           JIndex(JIndex(parsed_data, "price"), "expo"))

\* the success value of PythFetchPriceAction::call
PythSuccess(formatted_price) ==
  Ok([status |-> JStr("success"), price |-> JStr(formatted_price),
      message |-> JStr("Current price: $" \o formatted_price)])

\* PythFetchPriceAction::call from the body of the feed response on (pc
\* "http_body") and from the body of the price response on (pc
\* "http_price_body"); neither status is read
PythAnswer(me, b) ==
  LET data == ReadJson(b)
      symbol == me.input["tokenSymbol"].str
      feed_id == JIndex(PythFeed(data.value.arr, symbol), "id")
      parsed == JIndex(data.value, "parsed")
  IN  IF ~data.ok
      THEN [me EXCEPT !.pc = "done", !.result = Err(<<"reqwest">>)]
      ELSE IF me.pc = "http_body"
      THEN IF ~IsJArr(data.value)
           THEN [me EXCEPT !.pc = "done", !.result = Err(<<"Invalid response">>)]
           ELSE IF data.value.arr = <<>>
           THEN [me EXCEPT !.pc = "done",
                           !.result = Ok(ErrorValue("No price feed found for "
                                                    \o CharsText(symbol)))]
           ELSE IF ~IsJStr(feed_id)
           THEN [me EXCEPT !.pc = "done", !.result = Err(<<"No feed ID found">>)]
           ELSE [me EXCEPT !.pc = "http_price", !.feed_id = feed_id.str]
      ELSE IF ~IsJArr(parsed) \/ parsed.arr = <<>>
      THEN [me EXCEPT !.pc = "done", !.result = Err(<<"No price data">>)]
      ELSE [me EXCEPT !.pc = "done",
                      !.result = PythSuccess(PythPrice(parsed.arr[1]))]

\* one HTTP request of an operation that signs nothing, up to the response:
\* .send().await?, and the status check of FETCH_PRICE, which returns
\* without reading the body.  What SEND_TRANSACTION_WITH_PRIORITY submits is
\* the caller's encoded transaction, of which the model knows nothing
QueryHttp(i, r) ==
  /\ inv[i].pc \in {"http", "http_price"}
  /\ inv[i].op.kind \in QueryKinds
  /\ LET kind == inv[i].op.kind
         me == [inv[i] EXCEPT
                  !.calls = Append(@, "http"),
                  !.sent = IF kind = "SendTransactionWithPriorityAction"
                           THEN Append(@, NoTx) ELSE @]
     IN  inv' = [inv EXCEPT ![i] =
           IF r = HttpTransportError
           THEN [me EXCEPT !.pc = "done", !.result = Err(<<"reqwest">>)]
           ELSE IF ~is_success(r) /\ kind = "FetchPriceAction"
           THEN [me EXCEPT !.pc = "done", !.downstream = "non-2xx",
                           !.result = Ok(ErrorValue("Failed to fetch price: "
                                                    \o r))]
           ELSE [me EXCEPT !.pc = IF me.pc = "http" THEN "http_body"
                                  ELSE "http_price_body",
                           !.http_status = r,
                           !.downstream = IF is_success(r) THEN @
                                          ELSE "non-2xx"]]
  /\ UNCHANGED <<actions, regCount, lastReg, regOrder, metaOut, tokenAccounts, mintKeys>>

\* the body of that response, .json().await?, and the code after it
QueryBody(i, b) ==
  /\ inv[i].pc \in {"http_body", "http_price_body"}
  /\ inv[i].op.kind \in QueryKinds
  /\ LET me == [inv[i] EXCEPT !.http_status = ""]
         kind == me.op.kind
     IN  inv' = [inv EXCEPT ![i] =
           CASE kind = "SendTransactionWithPriorityAction" ->
                  SendWithPriorityAnswer(me, b)
             [] kind = "FetchPriceAction" -> FetchPriceAnswer(me, b)
             [] kind = "PythFetchPriceAction" -> PythAnswer(me, b)]
  /\ UNCHANGED <<actions, regCount, lastReg, regOrder, metaOut, tokenAccounts, mintKeys>>

\* a faulty get_balance: a failed token balance query propagates too
GetBalance_strict(native, r) ==
  IF ~r.ok THEN [ok |-> FALSE, balance |-> F64Zero]
  ELSE [ok |-> TRUE,
        balance |-> IF native THEN NativeBalanceOf[r.amount] ELSE r.amount]

\* Agent::get_balance: `self.client.get_balance(&owner)?` over
\* LAMPORTS_PER_SOL without a mint; with a mint the ui amount of the token
\* account, and 0.0 for every error of the query
GetBalance(native, r) ==
  IF native
  THEN IF r.ok THEN [ok |-> TRUE, balance |-> NativeBalanceOf[r.amount]]
       ELSE [ok |-> FALSE, balance |-> F64Zero]
  ELSE [ok |-> TRUE, balance |-> IF r.ok THEN r.amount ELSE F64Zero]

\* agent.get_balance(mint_pubkey).await? and the result of
\* GetBalanceAction::call
BalanceQuery(i, r) ==
  /\ inv[i].pc = "get_balance"
  /\ inv[i].op.kind = "GetBalanceAction"
  /\ LET native == inv[i].mint = ""
         me == [inv[i] EXCEPT
                  !.calls = Append(@, IF native THEN "get_balance"
                                      ELSE "get_token_account_balance"),
                  !.rpc_failed = ~r.ok]
         got == GetBalance(native, r)
     IN  inv' = [inv EXCEPT ![i] =
           IF ~got.ok
           THEN [me EXCEPT !.pc = "done", !.result = Err(<<"rpc: get_balance">>)]
           ELSE [me EXCEPT !.pc = "done", !.balance = got.balance,
                           !.downstream = IF ~r.ok THEN "lookup failed"
                                          ELSE @,
                           !.result = Ok([status |-> JStr("success"),
                                          balance |-> JNum(got.balance),
                                          token |-> IF native THEN JStr("SOL")
                                                    ELSE JStr(me.mint)])]]
  /\ UNCHANGED <<actions, regCount, lastReg, regOrder, metaOut, tokenAccounts, mintKeys>>

(***************************************************************************)
(* The placeholder operations LIST_NFT_FOR_SALE, CANCEL_NFT_LISTING        *)
(* (nft_actions.rs), SWAP_ON_RAYDIUM and LULO_LEND (defi_actions.rs): they  *)
(* take `_agent`, parse the input and return a fixed value.                 *)
(***************************************************************************)
PlaceholderKinds ==
  {"ListNftForSaleAction", "CancelNftListingAction", "SwapOnRaydiumAction",
   "LuloLendAction"}

\* the required fields of each Input struct: strings, and numbers (f64)
PlaceholderRequired(kind) ==
  CASE kind = "ListNftForSaleAction" ->
         [strings |-> {"nftMint"}, numbers |-> {"price"}]
    [] kind = "CancelNftListingAction" ->
         [strings |-> {"nftMint"}, numbers |-> {}]
    [] kind = "SwapOnRaydiumAction" ->
         [strings |-> {"inputMint", "outputMint"}, numbers |-> {"amount"}]
    [] kind = "LuloLendAction" ->
         [strings |-> {"mintAddress"}, numbers |-> {"amount"}]

\* serde_json::from_value::<Input>(input) succeeds
PlaceholderInputParses(kind, input) ==
  /\ \A f \in PlaceholderRequired(kind).strings :
       f \in DOMAIN input /\ IsJStr(input[f])
  /\ \A f \in PlaceholderRequired(kind).numbers :
       f \in DOMAIN input /\ JHasType(input[f], "f64")
  /\ OptionalParse(kind, input)

\* a faulty placeholder: it reports success
PlaceholderStatus_success(kind) == "success"

\* the status of the value the operation returns
PlaceholderStatus(kind) ==
  IF kind = "LuloLendAction" THEN "error" ELSE "info"

\* the value each operation returns (json!): a fixed status and message,
\* for the two NFT operations the parsed input, and the fixed extras; a
\* JSON array is [arr |-> the sequence of its elements]
PlaceholderValue(kind, input) ==
  CASE kind = "ListNftForSaleAction" ->
         [status |-> JStr(PlaceholderStatus(kind)),
          message |-> JStr("Tensor listing requires Tensor SDK integration"),
          input |-> [nftMint |-> input["nftMint"],
                     price |-> JNum(JAsF64(input["price"]))],
          requirements |->
            [arr |-> <<JStr("Tensor API key"),
                       JStr("NFT ownership verification"),
                       JStr("Transaction signing")>>]]
    [] kind = "CancelNftListingAction" ->
         [status |-> JStr(PlaceholderStatus(kind)),
          message |->
            JStr("Tensor cancel listing requires Tensor SDK integration"),
          input |-> [nftMint |-> input["nftMint"]]]
    [] kind = "SwapOnRaydiumAction" ->
         [status |-> JStr(PlaceholderStatus(kind)),
          message |-> JStr("For swaps, use the TRADE action which routes through Jupiter and includes Raydium pools automatically for best pricing."),
          recommendation |-> JStr("Use TRADE action instead")]
    [] kind = "LuloLendAction" ->
         [status |-> JStr(PlaceholderStatus(kind)),
          message |-> JStr("Lulo lending is not yet fully implemented. Requires Lulo API integration.")]

\* the whole call: parse, then the value
PlaceholderCall(i) ==
  /\ inv[i].pc = "call"
  /\ inv[i].op.kind \in PlaceholderKinds
  /\ inv' = IF PlaceholderInputParses(inv[i].op.kind, inv[i].input)
            THEN Finish(i, Ok(PlaceholderValue(inv[i].op.kind, inv[i].input)))
            ELSE Finish(i, Err(<<"serde_json: invalid input">>))
  /\ UNCHANGED <<actions, regCount, lastReg, regOrder, metaOut, tokenAccounts, mintKeys>>

(***************************************************************************)
(* The other operations of register_all_actions (token_actions.rs,         *)
(* defi_actions.rs, nft_actions.rs, misc_actions.rs): each answers from    *)
(* the process itself, from the RPC client, or from one HTTP exchange with *)
(* a service, and signs nothing.  What a request asks the service for (the *)
(* URL and the JSON it posts) is not part of the state: the answer is      *)
(* whatever the service sends back.                                        *)
(***************************************************************************)
\* the operations whose call takes `_input` and never reads it
IgnoresInput ==
  {"WalletAddressAction", "GetTpsAction", "RequestFundsAction",
   "GetJupiterRouteMapAction", "GetCoingeckoTrendingTokensAction",
   "GetDexscreenerTokenProfilesAction", "GetAllDomainsTldsAction"}

\* the operations that answer without a call to anything
LocalKinds ==
  {"WalletAddressAction", "GetDriftMarketsAction", "GetDefiRatesAction",
   "GetAllDomainsTldsAction"}

\* the operations that post a DAS method to the RPC endpoint and read the
\* body whatever the status
DasKinds ==
  {"GetAssetAction", "SearchAssetsAction", "GetAssetsByCreatorAction",
   "GetAssetsByAuthorityAction"}

\* the operations that make one HTTP request and return an error value for
\* a status that is no success
FetchKinds ==
  {"GetJupiterTokenListAction", "SearchJupiterTokensAction", "RugcheckAction",
   "GetSanctumPriceAction", "GetSanctumLstApyAction",
   "GetOrcaWhirlpoolsAction", "GetRaydiumPoolsAction",
   "GetMeteoraPoolsAction", "GetJupiterRouteMapAction",
   "GetMagicEdenCollectionStatsAction",
   "GetPopularMagicEdenCollectionsAction",
   "GetMagicEdenCollectionListingsAction",
   "GetCoingeckoTrendingTokensAction", "GetCoingeckoTokenInfoAction",
   "GetCoingeckoTokenPriceAction", "ParseTransactionAction",
   "ResolveSolDomainAction", "GetDomainForWalletAction",
   "GetCoingeckoTopGainersAction", "CreateHeliusWebhookAction",
   "GetHeliusWebhookAction", "DeleteHeliusWebhookAction",
   "GetDexscreenerTokenProfilesAction", "GetDexscreenerBoostedTokensAction",
   "GetDexscreenerPairsByTokenAction", "SearchDexscreenerPairsAction",
   "GetDexscreenerPairByAddressAction", "GetOwnedDomainsAction",
   "GetFavoriteDomainAction", "GetBirdeyeTokenOverviewAction",
   "GetBirdeyeTokenSecurityAction", "GetBirdeyeTrendingTokensAction",
   "GetBirdeyeOhlcvAction", "GetBirdeyeTradesAction"}

\* the operations that call the RPC client
RpcKinds == {"TokenBalancesAction", "GetTpsAction", "RequestFundsAction"}

ServiceKinds == LocalKinds \cup DasKinds \cup FetchKinds \cup RpcKinds

\* the members of each Input struct that are no Option, with their type
ServiceRequired(kind) ==
  CASE kind \in {"SearchJupiterTokensAction", "SearchDexscreenerPairsAction"} ->
         [query |-> "String"]
    [] kind = "RugcheckAction" -> [mint |-> "String"]
    [] kind \in {"GetSanctumPriceAction", "GetSanctumLstApyAction"} ->
         [mints |-> "Vec<String>"]
    [] kind = "GetDefiRatesAction" -> [token |-> "String"]
    [] kind = "GetAssetAction" -> [assetId |-> "String"]
    [] kind \in {"GetMagicEdenCollectionStatsAction",
                 "GetMagicEdenCollectionListingsAction"} ->
         [collectionSymbol |-> "String"]
    [] kind = "GetAssetsByCreatorAction" -> [creator |-> "String"]
    [] kind = "GetAssetsByAuthorityAction" -> [authority |-> "String"]
    [] kind = "GetCoingeckoTokenInfoAction" -> [tokenAddress |-> "String"]
    [] kind = "GetCoingeckoTokenPriceAction" -> [tokenIds |-> "Vec<String>"]
    [] kind = "ParseTransactionAction" -> [transactionId |-> "String"]
    [] kind = "ResolveSolDomainAction" -> [domain |-> "String"]
    [] kind = "GetDomainForWalletAction" -> [walletAddress |-> "String"]
    [] kind = "CreateHeliusWebhookAction" ->
         [accountAddresses |-> "Vec<String>", webhookURL |-> "String",
          heliusApiKey |-> "String"]
    [] kind \in {"GetHeliusWebhookAction", "DeleteHeliusWebhookAction"} ->
         [webhookID |-> "String", heliusApiKey |-> "String"]
    [] kind = "GetDexscreenerPairsByTokenAction" ->
         [tokenAddresses |-> "String"]
    [] kind = "GetDexscreenerPairByAddressAction" -> [pairAddress |-> "String"]
    [] kind \in {"GetOwnedDomainsAction", "GetFavoriteDomainAction"} ->
         [owner |-> "String"]
    [] kind \in {"GetBirdeyeTokenOverviewAction",
                 "GetBirdeyeTokenSecurityAction", "GetBirdeyeOhlcvAction",
                 "GetBirdeyeTradesAction"} ->
         [address |-> "String", apiKey |-> "String"]
    [] kind = "GetBirdeyeTrendingTokensAction" -> [apiKey |-> "String"]
    [] kind \in IgnoresInput
                \cup {"TokenBalancesAction", "GetJupiterTokenListAction",
                      "GetDriftMarketsAction", "GetOrcaWhirlpoolsAction",
                      "GetRaydiumPoolsAction", "GetMeteoraPoolsAction",
                      "GetPopularMagicEdenCollectionsAction",
                      "SearchAssetsAction", "GetCoingeckoTopGainersAction",
                      "GetDexscreenerBoostedTokensAction"} -> EmptyObject

\* a faulty parse: a required member of the wrong type is taken as given
ServiceInputParses_lenient(kind, input) ==
  /\ kind \notin IgnoresInput =>
       \A f \in DOMAIN ServiceRequired(kind) : f \in DOMAIN input
  /\ OptionalParse(kind, input)

\* serde_json::from_value::<Input>(input) succeeds, or the call has no Input
ServiceInputParses(kind, input) ==
  kind \notin IgnoresInput =>
    /\ \A f \in DOMAIN ServiceRequired(kind) :
         f \in DOMAIN input /\ JHasType(input[f], ServiceRequired(kind)[f])
    /\ OptionalParse(kind, input)

\* Value::get(key).cloned().unwrap_or(default)
JGetOr(v, key, default) ==
  IF JGet(v, key).some THEN JGet(v, key).value ELSE default

\* Value::as_str().unwrap_or(default)
AsStrOr(v, default) == IF IsJStr(v) THEN v.str ELSE default

\* Value::get(0) of an array
JFirst(v) ==
  IF IsJArr(v) /\ v.arr # <<>> THEN [some |-> TRUE, value |-> v.arr[1]]
  ELSE [some |-> FALSE, value |-> JNull]

\* Iterator::take(n)
Take(s, n) == SubSeq(s, 1, IF Len(s) < n THEN Len(s) ELSE n)

\* str::contains of a str pattern, on characters
Contains(hay, needle) ==
  \E k \in 0..(Len(hay) - Len(needle)) :
    SubSeq(hay, k + 1, k + Len(needle)) = needle

RECURSIVE trim_end_matches(_, _)
\* str::trim_end_matches of a str pattern: every repetition of the pattern
\* at the end is removed
trim_end_matches(chars, pat) ==
  IF pat # <<>> /\ Len(chars) >= Len(pat)
     /\ SubSeq(chars, Len(chars) - Len(pat) + 1, Len(chars)) = pat
  THEN trim_end_matches(SubSeq(chars, 1, Len(chars) - Len(pat)), pat)
  ELSE chars

\* a JSON array of strings
JStrs(s) == JArr([k \in 1..Len(s) |-> JStr(s[k])])

\* <f64 as Display>::fmt with the precision 0 ("{:.0}"): the exact value
\* rounded to a whole number, ties to the even one
F64Whole(f) ==
  IF f.cls = "nan" THEN "NaN"
  ELSE IF f.cls = "inf" THEN (IF f.neg THEN "-inf" ELSE "inf")
  ELSE (IF f.neg THEN "-" ELSE "")
       \o (IF FixedDigits(f.m, f.e) = <<>> THEN "0"
           ELSE DigitsText(FixedDigits(f.m, f.e)))

\* `x > 0.0` of an f64
F64Positive(f) ==
  ~f.neg /\ (f.cls = "inf" \/ (f.cls = "fin" /\ f.m # <<>>))

\* the markets GET_DRIFT_MARKETS lists
DriftSpotMarkets ==
  <<"USDC", "SOL", "mSOL", "wBTC", "wETH", "USDT", "jitoSOL", "PYTH", "JTO",
    "WIF", "JUP", "RNDR", "W", "TNSR", "DRIFT", "INF", "BONK">>
DriftPerpMarkets ==
  <<"SOL-PERP", "BTC-PERP", "ETH-PERP", "APT-PERP", "1MBONK-PERP",
    "MATIC-PERP", "ARB-PERP", "DOGE-PERP", "BNB-PERP", "SUI-PERP",
    "1MPEPE-PERP", "OP-PERP", "RNDR-PERP", "XRP-PERP", "HNT-PERP",
    "INJ-PERP", "LINK-PERP", "RLB-PERP", "PYTH-PERP", "TIA-PERP", "JTO-PERP",
    "SEI-PERP", "WIF-PERP", "JUP-PERP", "DYM-PERP", "STRK-PERP", "W-PERP",
    "TNSR-PERP", "KMNO-PERP", "DRIFT-PERP">>

\* GetDriftMarketsAction::call after the parse: `match
\* parsed.marketType.as_deref()`
DriftMarketsValue(input) ==
  LET market == OptionalString(input, "marketType")
  IN  IF market.some /\ market.str = "spot"
      THEN [status |-> JStr("success"), marketType |-> JStr("spot"),
            markets |-> JStrs(DriftSpotMarkets)]
      ELSE IF market.some /\ market.str = "perp"
      THEN [status |-> JStr("success"), marketType |-> JStr("perp"),
            markets |-> JStrs(DriftPerpMarkets)]
      ELSE [status |-> JStr("success"), spot |-> JStrs(DriftSpotMarkets),
            perp |-> JStrs(DriftPerpMarkets)]

\* the value of an operation that calls nothing (json!)
LocalValue(kind, input) ==
  CASE kind = "WalletAddressAction" ->
         [status |-> JStr("success"),
          message |-> JStr("Wallet address retrieved successfully"),
          address |-> JStr(WalletKey)]
    [] kind = "GetDriftMarketsAction" -> DriftMarketsValue(input)
    [] kind = "GetDefiRatesAction" ->
         [status |-> JStr("success"),
          token |-> JStr(input["token"].str),
          message |-> JStr("DeFi rates aggregation requires protocol-specific API integration"),
          protocols |-> JStrs(<<"marginfi", "kamino", "solend", "drift",
                                "mango">>),
          note |-> JStr("Query each protocol directly for real-time rates")]
    [] kind = "GetAllDomainsTldsAction" ->
         [status |-> JStr("success"),
          tlds |-> JStrs(<<".sol", ".abc", ".backpack", ".bonk", ".poor",
                           ".glow">>),
          note |-> JStr("Use RESOLVE_SOL_DOMAIN to resolve .sol domains")]

\* the call up to its first request: the parse, PARSE_TRANSACTION's key,
\* TOKEN_BALANCE_ACTION's wallet, and the whole call of an operation that
\* requests nothing
ServiceCall(i) ==
  /\ inv[i].pc = "call"
  /\ inv[i].op.kind \in ServiceKinds
  /\ LET kind == inv[i].op.kind
         input == inv[i].input
         wallet == OptionalString(input, "walletAddress")
     IN  inv' =
           IF ~ServiceInputParses(kind, input)
           THEN Finish(i, Err(<<"serde_json: invalid input">>))
           ELSE IF kind \in LocalKinds
           THEN Finish(i, Ok(LocalValue(kind, input)))
           ELSE IF kind = "TokenBalancesAction"
           THEN IF wallet.some /\ ~PubkeyFromStr(wallet.str).ok
                THEN Finish(i, Err(<<"Invalid pubkey">>))
                ELSE [inv EXCEPT ![i].pc = "get_balance",
                                 ![i].to = IF wallet.some THEN wallet.str
                                           ELSE WalletKey]
           ELSE IF kind = "GetTpsAction"
           THEN [inv EXCEPT ![i].pc = "get_recent_performance_samples"]
           ELSE IF kind = "RequestFundsAction"
           THEN [inv EXCEPT ![i].pc = "request_airdrop"]
           ELSE IF kind = "ParseTransactionAction"
                   /\ ~OptionalString(input, "heliusApiKey").some
           THEN Finish(i, Err(<<"Helius API key required. Pass heliusApiKey in input.">>))
           ELSE [inv EXCEPT ![i].pc = "http"]
  /\ UNCHANGED <<actions, regCount, lastReg, regOrder, metaOut, tokenAccounts, mintKeys>>

\* TokenBalancesAction::call: `agent.client.get_balance(&wallet_pubkey)?`
\* and the lamports over 1_000_000_000.0
TokenBalancesLamports(i, r) ==
  /\ inv[i].pc = "get_balance"
  /\ inv[i].op.kind = "TokenBalancesAction"
  /\ LET me == [inv[i] EXCEPT !.calls = Append(@, "get_balance"),
                              !.rpc_failed = ~r.ok]
     IN  inv' = [inv EXCEPT ![i] =
           IF ~r.ok
           THEN [me EXCEPT !.pc = "done", !.result = Err(<<"rpc: get_balance">>)]
           ELSE [me EXCEPT !.pc = "http",
                           !.balance = NativeBalanceOf[r.amount]]]
  /\ UNCHANGED <<actions, regCount, lastReg, regOrder, metaOut, tokenAccounts, mintKeys>>

\* an RpcPerfSample, of which the call reads two fields
PerfSample(num_transactions, sample_period_secs) ==
  [num_transactions |-> num_transactions,
   sample_period_secs |-> sample_period_secs]

\* what get_recent_performance_samples(Some(1)) yields: an error, no sample,
\* or one sample
PerfAnswers ==
  {[ok |-> FALSE, samples |-> <<>>]}
  \cup { [ok |-> TRUE, samples |-> s] :
           s \in {<<>>, <<PerfSample(3000, 60)>>, <<PerfSample(100, 0)>>,
                  <<PerfSample(1000, 3)>>, <<PerfSample(90, 60)>>,
                  <<PerfSample(150, 60)>>} }

\* num_transactions (u64) over sample_period_secs (u16), both `as f64`, and
\* 0.0 for a period of zero seconds
TpsOf(sample) ==
  IF sample.sample_period_secs > 0
  THEN F64Div(U64AsF64(BigFromNat(sample.num_transactions)),
              IntAsF64(sample.sample_period_secs))
  ELSE F64Zero

\* GetTpsAction::call
GetTpsSamples(i, r) ==
  /\ inv[i].pc = "get_recent_performance_samples"
  /\ inv[i].op.kind = "GetTpsAction"
  /\ LET me == [inv[i] EXCEPT
                  !.calls = Append(@, "get_recent_performance_samples"),
                  !.rpc_failed = ~r.ok]
     IN  inv' = [inv EXCEPT ![i] =
           IF ~r.ok
           THEN [me EXCEPT !.pc = "done",
                           !.result = Err(<<"rpc: get_recent_performance_samples">>)]
           ELSE IF r.samples = <<>>
           THEN [me EXCEPT !.pc = "done",
                           !.result = Ok(ErrorValue("No performance samples available"))]
           ELSE [me EXCEPT !.pc = "done",
                           !.result =
                             Ok([status |-> JStr("success"),
                                 tps |-> JNum(TpsOf(r.samples[1])),
                                 message |-> JStr("Current network TPS: "
                                   \o F64Whole(TpsOf(r.samples[1])))])]]
  /\ UNCHANGED <<actions, regCount, lastReg, regOrder, metaOut, tokenAccounts, mintKeys>>

\* the signature the faucet answers an airdrop request with
AirdropSignature == "sigAirdrop"

\* RequestFundsAction::call: request_airdrop(&pubkey, 5 * LAMPORTS_PER_SOL)?
RequestAirdrop(i, ok) ==
  /\ inv[i].pc = "request_airdrop"
  /\ inv[i].op.kind = "RequestFundsAction"
  /\ LET me == [inv[i] EXCEPT !.calls = Append(@, "request_airdrop"),
                              !.rpc_failed = ~ok]
     IN  inv' = [inv EXCEPT ![i] =
           IF ~ok
           THEN [me EXCEPT !.pc = "done",
                           !.result = Err(<<"rpc: request_airdrop">>)]
           ELSE [me EXCEPT !.pc = "get_latest_blockhash",
                           !.signature = AirdropSignature]]
  /\ UNCHANGED <<actions, regCount, lastReg, regOrder, metaOut, tokenAccounts, mintKeys>>

\* RequestFundsAction::call: agent.client.get_latest_blockhash()?
AirdropBlockhash(i, r) ==
  /\ inv[i].pc = "get_latest_blockhash"
  /\ inv[i].op.kind = "RequestFundsAction"
  /\ LET me == [inv[i] EXCEPT !.calls = Append(@, "get_latest_blockhash"),
                              !.rpc_failed = r \notin Blockhashes]
     IN  inv' = [inv EXCEPT ![i] =
           IF r \notin Blockhashes
           THEN [me EXCEPT !.pc = "done",
                           !.result = Err(<<"rpc: get_latest_blockhash">>)]
           ELSE [me EXCEPT !.pc = "confirm_transaction",
                           !.latest_blockhash = r]]
  /\ UNCHANGED <<actions, regCount, lastReg, regOrder, metaOut, tokenAccounts, mintKeys>>

\* RequestFundsAction::call: confirm_transaction_with_spinner(..)? and the
\* result
AirdropConfirm(i, ok) ==
  /\ inv[i].pc = "confirm_transaction"
  /\ inv[i].op.kind = "RequestFundsAction"
  /\ LET me == [inv[i] EXCEPT !.calls = Append(@, "confirm_transaction"),
                              !.rpc_failed = ~ok]
     IN  inv' = [inv EXCEPT ![i] =
           IF ~ok
           THEN [me EXCEPT !.pc = "done",
                           !.result = Err(<<"rpc: confirm_transaction">>)]
           ELSE [me EXCEPT !.pc = "done",
                           !.result =
                             Ok([status |-> JStr("success"),
                                 message |-> JStr("Successfully requested faucet funds"),
                                 signature |-> JStr(me.signature)])]]
  /\ UNCHANGED <<actions, regCount, lastReg, regOrder, metaOut, tokenAccounts, mintKeys>>

\* the text before the status in the error value of an operation that
\* checks the status
StatusErrorPrefix(kind) ==
  CASE kind \in {"GetJupiterTokenListAction", "SearchJupiterTokensAction",
                 "GetJupiterRouteMapAction"} -> "Jupiter API error: "
    [] kind = "RugcheckAction" -> "Failed to fetch rugcheck report: "
    [] kind = "GetSanctumPriceAction" -> "Failed to fetch Sanctum prices: "
    [] kind = "GetSanctumLstApyAction" -> "Failed to fetch Sanctum APY: "
    [] kind = "GetOrcaWhirlpoolsAction" -> "Orca API error: "
    [] kind = "GetRaydiumPoolsAction" -> "Raydium API error: "
    [] kind = "GetMeteoraPoolsAction" -> "Meteora API error: "
    [] kind = "GetMagicEdenCollectionStatsAction" ->
         "Failed to fetch collection stats: "
    [] kind = "GetPopularMagicEdenCollectionsAction" ->
         "Failed to fetch popular collections: "
    [] kind = "GetMagicEdenCollectionListingsAction" ->
         "Failed to fetch listings: "
    [] kind \in {"GetCoingeckoTrendingTokensAction",
                 "GetCoingeckoTokenPriceAction",
                 "GetCoingeckoTopGainersAction"} -> "CoinGecko API error: "
    [] kind = "GetCoingeckoTokenInfoAction" -> "Failed to fetch token info: "
    [] kind = "ParseTransactionAction" -> "Helius API error: "
    [] kind = "ResolveSolDomainAction" -> "Failed to resolve domain: "
    [] kind = "GetDomainForWalletAction" -> "Failed to lookup domain: "
    [] kind = "CreateHeliusWebhookAction" -> "Failed to create webhook: "
    [] kind = "GetHeliusWebhookAction" -> "Failed to fetch webhook: "
    [] kind = "DeleteHeliusWebhookAction" -> "Failed to delete webhook: "
    [] kind \in {"GetDexscreenerTokenProfilesAction",
                 "GetDexscreenerBoostedTokensAction",
                 "GetDexscreenerPairsByTokenAction",
                 "SearchDexscreenerPairsAction",
                 "GetDexscreenerPairByAddressAction"} ->
         "Dexscreener API error: "
    [] kind \in {"GetOwnedDomainsAction", "GetFavoriteDomainAction"} ->
         "SNS API error: "
    [] kind \in {"GetBirdeyeTokenOverviewAction",
                 "GetBirdeyeTokenSecurityAction",
                 "GetBirdeyeTrendingTokensAction", "GetBirdeyeOhlcvAction",
                 "GetBirdeyeTradesAction"} -> "Birdeye API error: "

\* the HTTP request of the call up to the response: .send().await?, the
\* status check of the operations that have one, and the result of
\* DELETE_HELIUS_WEBHOOK, which reads no body.  CREATE_HELIUS_WEBHOOK reads
\* the text of a response that is no success
ServiceHttp(i, r) ==
  /\ inv[i].pc = "http"
  /\ inv[i].op.kind \in ServiceKinds
  /\ LET kind == inv[i].op.kind
         me == [inv[i] EXCEPT !.calls = Append(@, "http")]
     IN  inv' = [inv EXCEPT ![i] =
           IF r = HttpTransportError
           THEN [me EXCEPT !.pc = "done", !.result = Err(<<"reqwest">>)]
           ELSE IF ~is_success(r) /\ kind = "CreateHeliusWebhookAction"
           THEN [me EXCEPT !.pc = "http_text", !.http_status = r,
                           !.downstream = "non-2xx"]
           ELSE IF ~is_success(r) /\ kind \in FetchKinds
           THEN [me EXCEPT !.pc = "done", !.downstream = "non-2xx",
                           !.result = Ok(ErrorValue(StatusErrorPrefix(kind)
                                                    \o r))]
           ELSE IF kind = "DeleteHeliusWebhookAction"
           THEN [me EXCEPT !.pc = "done",
                           !.result =
                             Ok([status |-> JStr("success"),
                                 message |-> JStr("Webhook deleted successfully")])]
           ELSE [me EXCEPT !.pc = "http_body", !.http_status = r,
                           !.downstream = IF is_success(r) THEN @
                                          ELSE "non-2xx"]]
  /\ UNCHANGED <<actions, regCount, lastReg, regOrder, metaOut, tokenAccounts, mintKeys>>

\* CreateHeliusWebhookAction::call for a status that is no success:
\* response.text().await.unwrap_or_default() in the message
ServiceText(i, b) ==
  /\ inv[i].pc = "http_text"
  /\ inv[i].op.kind = "CreateHeliusWebhookAction"
  /\ inv' = [inv EXCEPT ![i] =
       [inv[i] EXCEPT !.pc = "done", !.http_status = "",
                      !.result = Ok(ErrorValue(
                        StatusErrorPrefix("CreateHeliusWebhookAction")
                        \o ReadText(b).text))]]
  /\ UNCHANGED <<actions, regCount, lastReg, regOrder, metaOut, tokenAccounts, mintKeys>>

\* SearchJupiterTokensAction::call: the tokens whose lowercased symbol or
\* name contains the lowercased query, or whose address is the query; the
\* first 20 of them
JupiterMatching(tokens, query) ==
  LET query_lower == to_lowercase(query)
      member(t, f) == AsStrOr(JIndex(t, f), <<>>)
      matches(t) ==
        \/ Contains(to_lowercase(member(t, "symbol")), query_lower)
        \/ Contains(to_lowercase(member(t, "name")), query_lower)
        \/ member(t, "address") = query
  IN  Take(SelectSeq(tokens, matches), 20)

\* GetOrcaWhirlpoolsAction::call: the whirlpools of the answer, and with a
\* token mint the first 50 that hold it
OrcaPools(input, data) ==
  LET token_mint == OptionalString(input, "tokenMint")
      whirlpools == JGet(data, "whirlpools")
      holds(p) ==
        \/ AsStrOr(JIndex(JIndex(p, "tokenA"), "mint"), "") = token_mint.str
        \/ AsStrOr(JIndex(JIndex(p, "tokenB"), "mint"), "") = token_mint.str
  IN  IF token_mint.some /\ whirlpools.some /\ IsJArr(whirlpools.value)
      THEN JArr(Take(SelectSeq(whirlpools.value.arr, holds), 50))
      ELSE IF whirlpools.some THEN whirlpools.value ELSE JArr(<<>>)

\* GetMeteoraPoolsAction::call: the answer, and with a token mint the first
\* 50 pairs of an array that hold it
MeteoraPools(input, data) ==
  LET token_mint == OptionalString(input, "tokenMint")
      holds(p) ==
        \/ AsStrOr(JIndex(p, "mint_x"), "") = token_mint.str
        \/ AsStrOr(JIndex(p, "mint_y"), "") = token_mint.str
  IN  IF token_mint.some /\ IsJArr(data)
      THEN JArr(Take(SelectSeq(data.arr, holds), 50))
      ELSE data

\* TokenBalancesAction::call: whether an account of the answer is listed
\* (its parsed info is an object with a tokenAmount whose uiAmount is above
\* zero), and its entry
TokenInfo(account) ==
  JIndex(JIndex(JIndex(JIndex(account, "account"), "data"), "parsed"), "info")
TokenUiAmount(account) ==
  LET v == JIndex(JGet(TokenInfo(account), "tokenAmount").value, "uiAmount")
  IN  IF IsJNum(v) \/ IsJInt(v) THEN JAsF64(v) ELSE F64Zero
TokenDecimals(account) ==
  LET v == JIndex(JGet(TokenInfo(account), "tokenAmount").value, "decimals")
  IN  IF IsJInt(v) /\ v.int >= 0 THEN v.int % 256 ELSE 0
TokenListed(account) ==
  /\ IsJObject(TokenInfo(account))
  /\ JGet(TokenInfo(account), "tokenAmount").some
  /\ F64Positive(TokenUiAmount(account))
TokenEntry(account) ==
  [tokenAddress |-> JStr(AsStrOr(JIndex(TokenInfo(account), "mint"), "")),
   balance |-> JNum(TokenUiAmount(account)),
   decimals |-> JInt(TokenDecimals(account)),
   account |-> JIndex(account, "pubkey")]
TokenBalancesValue(sol_balance, data) ==
  LET accounts == JIndex(JIndex(data, "result"), "value")
      listed == IF IsJArr(accounts) THEN SelectSeq(accounts.arr, TokenListed)
                ELSE <<>>
  IN  [status |-> JStr("success"),
       balance |->
         [sol |-> JNum(sol_balance),
          tokens |-> JArr([k \in 1..Len(listed) |-> TokenEntry(listed[k])])]]

\* the value of a DAS operation for an answer without an `error` member
DasValue(kind, data) ==
  LET result == JIndex(data, "result")
  IN  CASE kind = "GetAssetAction" ->
             [status |-> JStr("success"),
              message |-> JStr("Asset retrieved successfully"),
              result |-> result]
        [] kind = "SearchAssetsAction" ->
             [status |-> JStr("success"),
              message |-> JStr("Assets retrieved successfully"),
              assets |-> JIndex(result, "items"),
              total |-> JIndex(result, "total")]
        [] kind \in {"GetAssetsByCreatorAction",
                     "GetAssetsByAuthorityAction"} ->
             [status |-> JStr("success"),
              assets |-> JIndex(result, "items"),
              total |-> JIndex(result, "total")]

\* the value (json!) of an operation that checks the status, for the JSON
\* of the answer
FetchValue(kind, input, data) ==
  CASE kind = "GetSanctumPriceAction" ->
         [status |-> JStr("success"),
          message |-> JStr("Price fetched successfully"),
          prices |-> JIndex(data, "solValues")]
    [] kind = "GetSanctumLstApyAction" ->
         [status |-> JStr("success"),
          message |-> JStr("APY fetched successfully"),
          apys |-> JIndex(data, "apys")]
    [] kind = "GetJupiterTokenListAction" ->
         [status |-> JStr("success"), tokens |-> data]
    [] kind = "RugcheckAction" ->
         [status |-> JStr("success"), response |-> data]
    [] kind = "GetMagicEdenCollectionStatsAction" ->
         [status |-> JStr("success"),
          message |-> JStr("Collection stats fetched successfully"),
          stats |-> data]
    [] kind = "GetPopularMagicEdenCollectionsAction" ->
         [status |-> JStr("success"),
          message |-> JStr("Popular collections fetched successfully"),
          collections |-> data]
    [] kind = "GetMagicEdenCollectionListingsAction" ->
         [status |-> JStr("success"),
          message |-> JStr("Listings fetched successfully"),
          listings |-> data]
    [] kind = "GetCoingeckoTrendingTokensAction" ->
         [status |-> JStr("success"), result |-> data]
    [] kind = "GetCoingeckoTokenInfoAction" ->
         [status |-> JStr("success"), result |-> data]
    [] kind = "GetCoingeckoTokenPriceAction" ->
         [status |-> JStr("success"), prices |-> data]
    [] kind = "GetCoingeckoTopGainersAction" ->
         [status |-> JStr("success"), gainers |-> data]
    [] kind = "GetDexscreenerTokenProfilesAction" ->
         [status |-> JStr("success"), profiles |-> data]
    [] kind = "GetDexscreenerBoostedTokensAction" ->
         [status |-> JStr("success"), tokens |-> data]
    [] kind = "GetDexscreenerPairsByTokenAction" ->
         [status |-> JStr("success"), pairs |-> data]
    [] kind = "GetOrcaWhirlpoolsAction" ->
         [status |-> JStr("success"), pools |-> OrcaPools(input, data)]
    [] kind = "GetRaydiumPoolsAction" ->
         [status |-> JStr("success"), pools |-> JGetOr(data, "data", data)]
    [] kind = "GetMeteoraPoolsAction" ->
         [status |-> JStr("success"), pools |-> MeteoraPools(input, data)]
    [] kind = "GetJupiterRouteMapAction" ->
         [status |-> JStr("success"),
          indexedRouteMap |-> JGetOr(data, "indexedRouteMap", EmptyObject),
          mintKeys |-> JGetOr(data, "mintKeys", JArr(<<>>))]
    [] kind = "ParseTransactionAction" ->
         [status |-> JStr("success"),
          transaction |-> data,
          message |-> JStr("Successfully parsed transaction: "
                           \o input["transactionId"].str)]
    [] kind = "ResolveSolDomainAction" ->
         IF IsJStr(JIndex(data, "result"))
         THEN [status |-> JStr("success"),
               owner |-> JIndex(data, "result"),
               message |-> JStr("Successfully resolved "
                 \o CharsText(trim_end_matches(input["domain"].str,
                                               <<".", "s", "o", "l">>))
                 \o ".sol")]
         ELSE ErrorValue("Domain not found or invalid response")
    [] kind = "GetDomainForWalletAction" ->
         IF IsJStr(JIndex(data, "result"))
         THEN [status |-> JStr("success"),
               domain |-> JStr(JIndex(data, "result").str \o ".sol")]
         ELSE [status |-> JStr("success"), domain |-> JNull,
               message |-> JStr("No .sol domain associated with this wallet")]
    [] kind = "CreateHeliusWebhookAction" ->
         [status |-> JStr("success"),
          webhookID |-> JIndex(data, "webhookID"),
          webhookURL |-> JIndex(data, "webhookURL"),
          message |-> JStr("Webhook created successfully")]
    [] kind = "GetHeliusWebhookAction" ->
         [status |-> JStr("success"),
          webhook |-> [webhookURL |-> JIndex(data, "webhookURL"),
                       accountAddresses |-> JIndex(data, "accountAddresses"),
                       transactionTypes |-> JIndex(data, "transactionTypes"),
                       webhookType |-> JIndex(data, "webhookType")]]
    [] kind = "SearchDexscreenerPairsAction" ->
         [status |-> JStr("success"),
          pairs |-> JGetOr(data, "pairs", JArr(<<>>))]
    [] kind = "GetDexscreenerPairByAddressAction" ->
         [status |-> JStr("success"),
          pair |-> JGetOr(data, "pair", JFirst(JIndex(data, "pairs")).value)]
    [] kind = "GetOwnedDomainsAction" ->
         [status |-> JStr("success"), domains |-> data,
          owner |-> JStr(input["owner"].str)]
    [] kind = "GetFavoriteDomainAction" ->
         [status |-> JStr("success"),
          domain |-> JGetOr(data, "result", JNull),
          owner |-> JStr(input["owner"].str)]
    [] kind \in {"GetBirdeyeTokenOverviewAction",
                 "GetBirdeyeTokenSecurityAction"} ->
         [status |-> JStr("success"), data |-> JGetOr(data, "data", data)]
    [] kind = "GetBirdeyeTrendingTokensAction" ->
         [status |-> JStr("success"),
          tokens |-> JGetOr(JIndex(data, "data"), "tokens", JArr(<<>>))]
    [] kind = "GetBirdeyeOhlcvAction" ->
         [status |-> JStr("success"),
          data |-> JGetOr(JIndex(data, "data"), "items", JArr(<<>>))]
    [] kind = "GetBirdeyeTradesAction" ->
         [status |-> JStr("success"),
          trades |-> JGetOr(JIndex(data, "data"), "items", JArr(<<>>))]

\* the code after `response.json().await?`, by operation.  The answer of
\* SEARCH_JUPITER_TOKENS is read as a Vec<Value>, which only an array is;
\* a DAS answer with an `error` member (null too) is an error value
ServiceAnswer(kind, me, data) ==
  IF kind = "SearchJupiterTokensAction"
  THEN IF ~IsJArr(data) THEN Err(<<"reqwest">>)
       ELSE Ok([status |-> JStr("success"),
                tokens |-> JArr(JupiterMatching(data.arr,
                                                me.input["query"].str)),
                count |-> JInt(Len(JupiterMatching(data.arr,
                                                   me.input["query"].str)))])
  ELSE IF kind \in DasKinds
  THEN IF JGet(data, "error").some
       THEN Ok(ErrorValue("DAS API error: "
                          \o JsonText(JGet(data, "error").value)))
       ELSE Ok(DasValue(kind, data))
  ELSE IF kind = "TokenBalancesAction"
  THEN Ok(TokenBalancesValue(me.balance, data))
  ELSE Ok(FetchValue(kind, me.input, data))

\* the body of the response, .json().await?, and the code after it
ServiceBody(i, b) ==
  /\ inv[i].pc = "http_body"
  /\ inv[i].op.kind \in ServiceKinds
  /\ LET me == [inv[i] EXCEPT !.http_status = ""]
     IN  inv' = [inv EXCEPT ![i] =
           IF ~ReadJson(b).ok
           THEN [me EXCEPT !.pc = "done", !.result = Err(<<"reqwest">>)]
           ELSE [me EXCEPT !.pc = "done",
                           !.result = ServiceAnswer(me.op.kind, me,
                                                    ReadJson(b).value)]]
  /\ UNCHANGED <<actions, regCount, lastReg, regOrder, metaOut, tokenAccounts, mintKeys>>

(***************************************************************************)
(* The inputs the environment supplies to execute.                         *)
(***************************************************************************)

MintValues ==
  {JNull} \cup { JStr(m) : m \in {"MintUSDC", "MintCents", "MintT22",
                                  "NotAMint", "NoAccount", "not a key"} }

\* inputs that satisfy TRANSFER's inputSchema: `to` a string, `amount` a
\* number, `mint` absent, null or a string
TransferSchemaInputs ==
  { [to |-> JStr("Alice"), amount |-> JNum(a)] : a \in Amounts }
  \cup { [to |-> JStr("Alice"), amount |-> JNum(a), mint |-> m] :
           a \in Amounts, m \in MintValues }
  \cup { [to |-> JStr("not a key"), amount |-> JNum(Amt_5)] }

TransferBadInputs ==
  { [amount |-> JNum(Amt_5)],
    [to |-> JStr("Alice"), amount |-> JStr("5")] }

TransferInputs == TransferSchemaInputs \cup TransferBadInputs

\* the few inputs used where the registry is what varies
FewInputs ==
  { [to |-> JStr("Alice"), amount |-> JNum(Amt_0_1)],
    [to |-> JStr("Alice"), amount |-> JNum(Amt_5), mint |-> JStr("MintUSDC")] }

\* the inputs of the concurrent transfers: a native transfer, a token
\* transfer, and a destination that is no key
ConcInputs == FewInputs \cup { [to |-> JStr("not a key"), amount |-> JNum(Amt_5)] }

CustomResults ==
  { Ok([status |-> JStr("info")]), Ok(ErrorValue("custom error")),
    Err(<<"custom failure">>) }

\* inputs of MINT_NFT and DEPLOY_COLLECTION: the required members alone,
\* a recipient, no key as the recipient or as the collection mint, optional
\* members of the type of the struct and of another type, a member that
\* only MINT_NFT has, and a missing `uri`
NftInputs ==
  LET base == [name |-> JStr("Art"), uri |-> JStr("https://u")]
  IN  { base,
        base @@ [recipient |-> JStr("Alice")],
        base @@ [recipient |-> JStr("not a key")],
        base @@ [recipient |-> JNum(Amt_5)],
        base @@ [collectionMint |-> JStr("not a key")],
        base @@ [symbol |-> JStr("ART"), sellerFeeBasisPoints |-> JInt(250),
                 royaltyBasisPoints |-> JInt(250),
                 collectionMint |-> JStr("MintUSDC")],
        base @@ [sellerFeeBasisPoints |-> JStr("500")],
        base @@ [royaltyBasisPoints |-> JInt(70000)],
        base @@ [symbol |-> JNum(Amt_5)],
        [name |-> JStr("Art")] }

\* an input with every required field of the operation
ThirdPartyValidInput(kind) ==
  [f \in RequiredStrings(kind) \cup RequiredNumbers(kind) |->
     IF f \in RequiredStrings(kind) THEN JStr("x") ELSE JNum(Amt_5)]

\* the valid input with the optional members of the struct: each given a
\* value of its type, set to null, or one of them given a float
ThirdPartyOptionalInputs(kind) ==
  LET valid == ThirdPartyValidInput(kind)
      opt == OptionalMembers(kind)
      typed(t) == IF t = "String" THEN JStr("MintUSDC") ELSE JInt(50)
  IN  { valid @@ [f \in DOMAIN opt |-> typed(opt[f])],
        valid @@ [f \in DOMAIN opt |-> JNull] }
      \cup { valid @@ (f :> JNum(Amt_5)) : f \in DOMAIN opt }

NameOfKind(kind) == BuiltinAction(kind).name

\* the symbol PYTH_FETCH_PRICE is asked for, as its characters
PythSymbol == <<"S", "O", "L">>

\* the characters of a string of the bodies below
Chars_sol == <<"s", "o", "l">>
Chars_btc == <<"b", "t", "c">>

\* a feed of Hermes' price_feeds answer, with and without an id
PythFeedEntry(id, base) == [id |-> JStr(id), attributes |-> [base |-> JStr(base)]]
PythFeedNoId(base) == [attributes |-> [base |-> JStr(base)]]

\* an element of `parsed` in Hermes' latest-price answer
PythParsed(price, expo) == [price |-> [price |-> price, expo |-> expo]]

\* the bodies the service of an operation that signs nothing answers with,
\* by the request the operation is at
QueryBodies(kind, pc) ==
  <<BodyUnread, BodyNotJson("Bad Gateway"), Body("{}", EmptyObject)>> \o
  CASE kind = "SendTransactionWithPriorityAction" /\ pc = "http_body" ->
         << Body("{\"error\":\"boom\"}", [error |-> JStr("boom")]),
            Body("{\"error\":null}", [error |-> JNull]),
            Body("{\"error\":-32002}", [error |-> JInt(0 - 32002)]),
            Body("{\"result\":\"sig\"}", [result |-> JStr("sig")]) >>
    [] kind = "FetchPriceAction" /\ pc = "http_body" ->
         << Body("{\"data\":{\"x\":{\"price\":\"1.0\"}}}",
                 [data |-> [x |-> [price |-> JStr("1.0")]]]),
            Body("{\"data\":{\"x\":{\"price\":0.1}}}",
                 [data |-> [x |-> [price |-> JNum(Amt_0_1)]]]),
            Body("{\"data\":{\"x\":{\"price\":5}}}",
                 [data |-> [x |-> [price |-> JInt(5)]]]),
            Body("{\"data\":{\"x\":{\"price\":\"\"}}}",
                 [data |-> [x |-> [price |-> JStr("")]]]),
            Body("{\"data\":{\"x\":{\"price\":\"N/A\"}}}",
                 [data |-> [x |-> [price |-> JStr("N/A")]]]),
            Body("{\"data\":{\"y\":{\"price\":\"2\"}}}",
                 [data |-> [y |-> [price |-> JStr("2")]]]) >>
    [] kind = "PythFetchPriceAction" /\ pc = "http_body" ->
         << Body("[]", JArr(<<>>)),
            Body("[{\"id\":\"f1\",\"attributes\":{\"base\":\"sol\"}}]",
                 JArr(<<PythFeedEntry("f1", Chars_sol)>>)),
            Body("[{\"attributes\":{\"base\":\"sol\"}}]",
                 JArr(<<PythFeedNoId(Chars_sol)>>)),
            Body("[{\"id\":\"f0\",\"attributes\":{\"base\":\"btc\"}},{\"id\":\"f1\",\"attributes\":{\"base\":\"sol\"}}]",
                 JArr(<<PythFeedEntry("f0", Chars_btc),
                        PythFeedEntry("f1", Chars_sol)>>)),
            Body("[{\"id\":\"f0\",\"attributes\":{\"base\":\"btc\"}}]",
                 JArr(<<PythFeedEntry("f0", Chars_btc)>>)) >>
    [] kind = "PythFetchPriceAction" /\ pc = "http_price_body" ->
         << Body("{\"parsed\":[]}", [parsed |-> JArr(<<>>)]),
            Body("{\"parsed\":[{\"price\":{\"price\":\"100\",\"expo\":-2}}]}",
                 [parsed |-> JArr(<<PythParsed(JStr(<<"1", "0", "0">>),
                                               JInt(0 - 2))>>)]),
            Body("{\"parsed\":[{\"price\":{\"price\":\"6543210987\",\"expo\":-8}}]}",
                 [parsed |-> JArr(<<PythParsed(
                    JStr(<<"6", "5", "4", "3", "2", "1", "0", "9", "8", "7">>),
                    JInt(0 - 8))>>)]),
            Body("{\"parsed\":[{\"price\":{\"price\":\"-5\",\"expo\":3}}]}",
                 [parsed |-> JArr(<<PythParsed(JStr(<<"-", "5">>), JInt(3))>>)]),
            Body("{\"parsed\":[{\"price\":{\"price\":12345,\"expo\":-2}}]}",
                 [parsed |-> JArr(<<PythParsed(JInt(12345), JInt(0 - 2))>>)]),
            Body("{\"parsed\":[{\"price\":{\"price\":\"abc\",\"expo\":0.1}}]}",
                 [parsed |-> JArr(<<PythParsed(JStr(<<"a", "b", "c">>),
                                               JNum(Amt_0_1))>>)]),
            Body("{\"parsed\":[{\"price\":{\"expo\":-2}}]}",
                 [parsed |-> JArr(<<[price |-> [expo |-> JInt(0 - 2)]]>>)]) >>
    [] OTHER -> <<>>

\* inputs of the operations that sign nothing: the required fields, no
\* field, for BALANCE_ACTION a mint, no key and a number, and for
\* SEND_TRANSACTION_WITH_PRIORITY a priority level and a number as one
QueryInputs(kind) ==
  { [f \in QueryRequired(kind) |->
       IF kind = "PythFetchPriceAction" THEN JStr(PythSymbol) ELSE JStr("x")],
    EmptyObject }
  \cup IF kind = "GetBalanceAction"
       THEN { [tokenAddress |-> v] :
                v \in {JStr("MintUSDC"), JStr("not a key"), JNum(Amt_5)} }
       ELSE IF kind = "SendTransactionWithPriorityAction"
       THEN { [f \in QueryRequired(kind) |-> JStr("x")]
                @@ [priorityLevel |-> v] : v \in {JStr("high"), JNum(Amt_5)} }
       ELSE {}

\* inputs of a placeholder operation: every required field, no field, a
\* number where a string is required, an integer as the number, and a
\* string as an optional number
PlaceholderInputs(kind) ==
  LET valid == [f \in PlaceholderRequired(kind).strings
                       \cup PlaceholderRequired(kind).numbers |->
                  IF f \in PlaceholderRequired(kind).strings
                  THEN JStr("x") ELSE JNum(Amt_5)]
  IN  { valid, EmptyObject, [f \in DOMAIN valid |-> JNum(Amt_5)],
        [f \in DOMAIN valid |->
           IF f \in PlaceholderRequired(kind).strings
           THEN JStr("x") ELSE JInt(5)] }
      \cup { valid @@ (f :> JStr("1")) : f \in DOMAIN OptionalMembers(kind) }

\* a token of Jupiter's list; its strings are sequences of characters
JupiterToken(symbol, name, address) ==
  [symbol |-> JStr(symbol), name |-> JStr(name), address |-> JStr(address)]
JupiterSol ==
  JupiterToken(<<"S", "O", "L">>, <<"W", "r", "a", "p", "p", "e", "d">>,
               <<"A", "1">>)
JupiterSolText == "{\"symbol\":\"SOL\",\"name\":\"Wrapped\",\"address\":\"A1\"}"

RECURSIVE RepeatText(_, _)
\* the text s, n times, with commas between
RepeatText(s, n) == IF n <= 1 THEN s ELSE s \o "," \o RepeatText(s, n - 1)

\* a whirlpool of Orca's list and a pair of Meteora's
OrcaPool(a, b) == [tokenA |-> [mint |-> JStr(a)], tokenB |-> [mint |-> JStr(b)]]
OrcaPoolText(a, b) ==
  "{\"tokenA\":{\"mint\":\"" \o a \o "\"},\"tokenB\":{\"mint\":\"" \o b \o "\"}}"
MeteoraPair(x, y) == [mint_x |-> JStr(x), mint_y |-> JStr(y)]
MeteoraPairText(x, y) ==
  "{\"mint_x\":\"" \o x \o "\",\"mint_y\":\"" \o y \o "\"}"

\* a token account of getTokenAccountsByOwner's answer (jsonParsed)
ParsedTokenAccount(pubkey, mint, uiAmount, decimals) ==
  [pubkey |-> JStr(pubkey),
   account |->
     [data |->
        [parsed |->
           [info |-> [mint |-> JStr(mint),
                      tokenAmount |-> [uiAmount |-> uiAmount,
                                       decimals |-> decimals]]]]]]

\* the bodies a service answers with to every request: none that could be
\* read, no JSON, an empty object
CommonBodies ==
  <<BodyUnread, BodyNotJson("Bad Gateway"), Body("{}", EmptyObject)>>

\* the bodies of the DAS methods
DasBodies ==
  << Body("{\"error\":\"boom\"}", [error |-> JStr("boom")]),
     Body("{\"error\":null}", [error |-> JNull]),
     Body("{\"error\":-32002}", [error |-> JInt(0 - 32002)]),
     Body("{\"result\":{\"items\":[1],\"total\":1}}",
          [result |-> [items |-> JArr(<<JInt(1)>>), total |-> JInt(1)]]),
     Body("{\"result\":{\"id\":\"x\"}}", [result |-> [id |-> JStr("x")]]) >>

\* the bodies of getTokenAccountsByOwner: accounts with a balance, with
\* none, with decimals beyond a u8, without parsed data, without a token
\* amount and with a null one; no account; an error
TokenAccountBodies ==
  << Body("{\"result\":{\"value\":[{\"pubkey\":\"ata1\",\"account\":{\"data\":{\"parsed\":{\"info\":{\"mint\":\"MintUSDC\",\"tokenAmount\":{\"uiAmount\":5.0,\"decimals\":6}}}}}},{\"pubkey\":\"ata2\",\"account\":{\"data\":{\"parsed\":{\"info\":{\"mint\":\"MintCents\",\"tokenAmount\":{\"uiAmount\":0.0,\"decimals\":2}}}}}},{\"pubkey\":\"ata3\",\"account\":{\"data\":{\"parsed\":{\"info\":{\"mint\":\"MintT22\",\"tokenAmount\":{\"uiAmount\":5,\"decimals\":265}}}}}},{\"pubkey\":\"ata4\",\"account\":{\"data\":\"AAAA\"}},{\"pubkey\":\"ata5\",\"account\":{\"data\":{\"parsed\":{\"info\":{\"mint\":\"MintUSDC\"}}}}},{\"account\":{\"data\":{\"parsed\":{\"info\":{\"mint\":5,\"tokenAmount\":{\"uiAmount\":0.1,\"decimals\":0.1}}}}}},{\"pubkey\":\"ata7\",\"account\":{\"data\":{\"parsed\":{\"info\":{\"mint\":\"MintUSDC\",\"tokenAmount\":{\"uiAmount\":null,\"decimals\":6}}}}}}]}}",
          [result |->
             [value |-> JArr(<<
                ParsedTokenAccount("ata1", "MintUSDC", JNum(Amt_5), JInt(6)),
                ParsedTokenAccount("ata2", "MintCents", JNum(Amt_0), JInt(2)),
                ParsedTokenAccount("ata3", "MintT22", JInt(5), JInt(265)),
                [pubkey |-> JStr("ata4"), account |-> [data |-> JStr("AAAA")]],
                [pubkey |-> JStr("ata5"),
                 account |-> [data |-> [parsed |->
                   [info |-> [mint |-> JStr("MintUSDC")]]]]],
                [account |-> [data |-> [parsed |->
                   [info |-> [mint |-> JInt(5),
                              tokenAmount |-> [uiAmount |-> JNum(Amt_0_1),
                                               decimals |-> JNum(Amt_0_1)]]]]]],
                ParsedTokenAccount("ata7", "MintUSDC", JNull, JInt(6))>>)]]),
     Body("{\"result\":{\"value\":[]}}", [result |-> [value |-> JArr(<<>>)]]),
     Body("{\"error\":\"boom\"}", [error |-> JStr("boom")]) >>

\* the bodies the service of each of these operations answers with
ServiceBodies(kind) ==
  IF kind \notin ServiceKinds THEN <<>>
  ELSE CommonBodies \o
  CASE kind \in DasKinds -> DasBodies
    [] kind = "TokenBalancesAction" -> TokenAccountBodies
    [] kind = "SearchJupiterTokensAction" ->
         << Body("[]", JArr(<<>>)),
            Body("[" \o JupiterSolText \o ",{\"symbol\":\"USDC\",\"name\":\"Solid\",\"address\":\"A2\"},{\"symbol\":5,\"address\":\"So\"},{\"symbol\":\"BTC\",\"name\":\"Bitcoin\",\"address\":\"A4\"},1]",
                 JArr(<<JupiterSol,
                        JupiterToken(<<"U", "S", "D", "C">>,
                                     <<"S", "o", "l", "i", "d">>,
                                     <<"A", "2">>),
                        [symbol |-> JInt(5), address |-> JStr(<<"S", "o">>)],
                        JupiterToken(<<"B", "T", "C">>,
                                     <<"B", "i", "t", "c", "o", "i", "n">>,
                                     <<"A", "4">>),
                        JInt(1)>>)),
            Body("[" \o RepeatText(JupiterSolText, 21) \o "]",
                 JArr([k \in 1..21 |-> JupiterSol])) >>
    [] kind = "GetSanctumPriceAction" ->
         << Body("{\"solValues\":{\"x\":\"1\"}}",
                 [solValues |-> [x |-> JStr("1")]]) >>
    [] kind = "GetSanctumLstApyAction" ->
         << Body("{\"apys\":{\"x\":0.1}}", [apys |-> [x |-> JNum(Amt_0_1)]]) >>
    [] kind = "GetOrcaWhirlpoolsAction" ->
         << Body("{\"whirlpools\":[" \o OrcaPoolText("MintUSDC", "MintCents")
                 \o "," \o OrcaPoolText("MintCents", "MintT22")
                 \o "," \o OrcaPoolText("MintT22", "MintUSDC") \o ",1]}",
                 [whirlpools |-> JArr(<<OrcaPool("MintUSDC", "MintCents"),
                                        OrcaPool("MintCents", "MintT22"),
                                        OrcaPool("MintT22", "MintUSDC"),
                                        JInt(1)>>)]),
            Body("{\"whirlpools\":\"none\"}", [whirlpools |-> JStr("none")]),
            Body("{\"whirlpools\":["
                 \o RepeatText(OrcaPoolText("MintUSDC", "MintCents"), 51)
                 \o "]}",
                 [whirlpools |->
                    JArr([k \in 1..51 |-> OrcaPool("MintUSDC", "MintCents")])]) >>
    [] kind = "GetRaydiumPoolsAction" ->
         << Body("{\"data\":[1]}", [data |-> JArr(<<JInt(1)>>)]),
            Body("[1]", JArr(<<JInt(1)>>)) >>
    [] kind = "GetMeteoraPoolsAction" ->
         << Body("[" \o MeteoraPairText("MintUSDC", "MintCents")
                 \o "," \o MeteoraPairText("MintCents", "MintT22")
                 \o "," \o MeteoraPairText("MintT22", "MintUSDC") \o ",1]",
                 JArr(<<MeteoraPair("MintUSDC", "MintCents"),
                        MeteoraPair("MintCents", "MintT22"),
                        MeteoraPair("MintT22", "MintUSDC"),
                        JInt(1)>>)),
            Body("["
                 \o RepeatText(MeteoraPairText("MintUSDC", "MintCents"), 51)
                 \o "]",
                 JArr([k \in 1..51 |-> MeteoraPair("MintUSDC", "MintCents")])) >>
    [] kind = "GetJupiterRouteMapAction" ->
         << Body("{\"indexedRouteMap\":{\"a\":[1]},\"mintKeys\":[\"MintUSDC\"]}",
                 [indexedRouteMap |-> [a |-> JArr(<<JInt(1)>>)],
                  mintKeys |-> JArr(<<JStr("MintUSDC")>>)]) >>
    [] kind \in {"ResolveSolDomainAction", "GetDomainForWalletAction",
                 "GetFavoriteDomainAction"} ->
         << Body("{\"result\":\"Bob\"}", [result |-> JStr("Bob")]),
            Body("{\"result\":5}", [result |-> JInt(5)]) >>
    [] kind = "CreateHeliusWebhookAction" ->
         << Body("{\"webhookID\":\"w1\",\"webhookURL\":\"x\"}",
                 [webhookID |-> JStr("w1"), webhookURL |-> JStr("x")]) >>
    [] kind = "GetHeliusWebhookAction" ->
         << Body("{\"webhookURL\":\"x\",\"accountAddresses\":[\"Alice\"],\"transactionTypes\":[\"ANY\"],\"webhookType\":\"enhanced\"}",
                 [webhookURL |-> JStr("x"),
                  accountAddresses |-> JArr(<<JStr("Alice")>>),
                  transactionTypes |-> JArr(<<JStr("ANY")>>),
                  webhookType |-> JStr("enhanced")]) >>
    [] kind = "SearchDexscreenerPairsAction" ->
         << Body("{\"pairs\":[1]}", [pairs |-> JArr(<<JInt(1)>>)]) >>
    [] kind = "GetDexscreenerPairByAddressAction" ->
         << Body("{\"pair\":{\"a\":1}}", [pair |-> [a |-> JInt(1)]]),
            Body("{\"pair\":null}", [pair |-> JNull]),
            Body("{\"pairs\":[{\"a\":1}]}",
                 [pairs |-> JArr(<<[a |-> JInt(1)]>>)]),
            Body("{\"pairs\":[]}", [pairs |-> JArr(<<>>)]) >>
    [] kind \in {"GetBirdeyeTokenOverviewAction",
                 "GetBirdeyeTokenSecurityAction"} ->
         << Body("{\"data\":{\"a\":1}}", [data |-> [a |-> JInt(1)]]) >>
    [] kind = "GetBirdeyeTrendingTokensAction" ->
         << Body("{\"data\":{\"tokens\":[1]}}",
                 [data |-> [tokens |-> JArr(<<JInt(1)>>)]]),
            Body("{\"data\":5}", [data |-> JInt(5)]) >>
    [] kind \in {"GetBirdeyeOhlcvAction", "GetBirdeyeTradesAction"} ->
         << Body("{\"data\":{\"items\":[1]}}",
                 [data |-> [items |-> JArr(<<JInt(1)>>)]]),
            Body("{\"data\":5}", [data |-> JInt(5)]) >>
    [] kind \in {"GetJupiterTokenListAction", "RugcheckAction",
                 "GetMagicEdenCollectionStatsAction",
                 "GetPopularMagicEdenCollectionsAction",
                 "GetMagicEdenCollectionListingsAction",
                 "GetCoingeckoTrendingTokensAction",
                 "GetCoingeckoTokenInfoAction",
                 "GetCoingeckoTokenPriceAction", "ParseTransactionAction",
                 "GetCoingeckoTopGainersAction",
                 "GetDexscreenerTokenProfilesAction",
                 "GetDexscreenerBoostedTokensAction",
                 "GetDexscreenerPairsByTokenAction",
                 "GetOwnedDomainsAction"} ->
         << Body("[1]", JArr(<<JInt(1)>>)) >>
    [] kind \in LocalKinds
                \cup {"GetTpsAction", "RequestFundsAction",
                      "DeleteHeliusWebhookAction"} -> <<>>

\* the required members of every operation's Input struct, by type:
\* strings, numbers (f64) and lists of strings.  A caller's own operation
\* has no Input struct of this repository, and an unknown name has no
\* operation
RequiredStringsOf(kind) ==
  CASE kind = "TransferAction" -> {"to"}
    [] kind \in NftKinds -> {"name", "uri"}
    [] kind \in ThirdPartyKinds -> RequiredStrings(kind)
    [] kind \in QueryKinds -> QueryRequired(kind)
    [] kind \in PlaceholderKinds -> PlaceholderRequired(kind).strings
    [] kind \in ServiceKinds ->
         { f \in DOMAIN ServiceRequired(kind) :
             ServiceRequired(kind)[f] = "String" }
    [] kind \in {"CustomAction", "none"} -> {}

RequiredNumbersOf(kind) ==
  CASE kind = "TransferAction" -> {"amount"}
    [] kind \in ThirdPartyKinds -> RequiredNumbers(kind)
    [] kind \in PlaceholderKinds -> PlaceholderRequired(kind).numbers
    [] kind \in ServiceKinds ->
         { f \in DOMAIN ServiceRequired(kind) :
             ServiceRequired(kind)[f] = "f64" }
    [] kind \in NftKinds \cup QueryKinds \cup {"CustomAction", "none"} -> {}

RequiredListsOf(kind) ==
  CASE kind \in ServiceKinds ->
         { f \in DOMAIN ServiceRequired(kind) :
             ServiceRequired(kind)[f] = "Vec<String>" }
    [] kind \in {"TransferAction", "CustomAction", "none"}
                \cup NftKinds \cup ThirdPartyKinds \cup QueryKinds
                \cup PlaceholderKinds -> {}

\* every required member of the operation, and the type of each
RequiredOf(kind) ==
  RequiredStringsOf(kind) \cup RequiredNumbersOf(kind)
    \cup RequiredListsOf(kind)
RequiredType(kind, f) ==
  IF f \in RequiredStringsOf(kind) THEN "String"
  ELSE IF f \in RequiredNumbersOf(kind) THEN "f64" ELSE "Vec<String>"

\* an input with every required member of the operation and no other: the
\* strings are "x", but a key for TRANSFER, a name and a link for the NFT
\* operations, and the characters of the query, the symbol and the domain
\* for the operations that look into them
ValidInputOf(kind) ==
  [f \in RequiredOf(kind) |->
     IF RequiredType(kind, f) = "f64" THEN JNum(Amt_5)
     ELSE IF RequiredType(kind, f) = "Vec<String>" THEN JStrs(<<"x">>)
     ELSE IF kind = "TransferAction" THEN JStr("Alice")
     ELSE IF kind \in NftKinds
     THEN (IF f = "name" THEN JStr("Art") ELSE JStr("https://u"))
     ELSE IF kind = "PythFetchPriceAction" THEN JStr(PythSymbol)
     ELSE IF kind = "SearchJupiterTokensAction" THEN JStr(<<"S", "o">>)
     ELSE IF kind = "ResolveSolDomainAction"
     THEN JStr(<<"b", "o", "b", ".", "s", "o", "l">>)
     ELSE JStr("x")]

\* a value of another type than that of v: a number for a string, a list
\* holding a number for a list of strings, a string for a number
WrongTyped(v) ==
  IF IsJStr(v) THEN JNum(Amt_5)
  ELSE IF IsJArr(v) THEN JArr(<<JInt(1)>>)
  ELSE JStr("5")

\* the invalid inputs of the operation: the valid input without one of the
\* required members, and with one of them given another type
InvalidInputs(kind) ==
  { [g \in DOMAIN ValidInputOf(kind) \ {f} |-> ValidInputOf(kind)[g]] :
      f \in RequiredOf(kind) }
  \cup { [ValidInputOf(kind) EXCEPT ![f] = WrongTyped(@)] :
           f \in RequiredOf(kind) }

\* a value of the type of an optional member, and one of another type
OptionalTyped(t) ==
  CASE t = "String" -> JStr("x")
    [] t \in {"u16", "u32"} -> JInt(5)
    [] t = "i64" -> JInt(0 - 5)
    [] t = "f64" -> JNum(Amt_5)
    [] t = "bool" -> JBool(TRUE)
    [] t = "Vec<String>" -> JStrs(<<"usd">>)
OptionalMistyped(t) ==
  CASE t = "String" -> JInt(1)
    [] t \in {"u16", "u32"} -> JInt(0 - 1)
    [] t = "i64" -> JNum(Amt_5)
    [] t = "f64" -> JStr("5")
    [] t = "bool" -> JStr("true")
    [] t = "Vec<String>" -> JStr("usd")

\* the inputs that matter to single operations: a wallet that is a key and
\* one that is none, a market type, a token mint to filter by, queries
\* that match everything and an address, domains without and with a
\* repeated suffix, an empty list and a string as the list
ServiceExtraInputs(kind) ==
  CASE kind = "TokenBalancesAction" ->
         { [walletAddress |-> JStr(a)] : a \in {"Alice", "not a key"} }
    [] kind = "GetDriftMarketsAction" ->
         { [marketType |-> JStr(t)] : t \in {"spot", "perp"} }
    [] kind \in {"GetOrcaWhirlpoolsAction", "GetMeteoraPoolsAction"} ->
         { [tokenMint |-> JStr("MintUSDC")] }
    [] kind = "SearchJupiterTokensAction" ->
         { [query |-> JStr(q)] : q \in {<<>>, <<"A", "1">>} }
    [] kind = "ResolveSolDomainAction" ->
         { [domain |-> JStr(d)] :
             d \in {<<"b", "o", "b">>,
                    <<"a", ".", "s", "o", "l", ".", "s", "o", "l">>} }
    [] kind \in {"GetSanctumPriceAction", "GetSanctumLstApyAction"} ->
         { [mints |-> v] : v \in {JArr(<<>>), JStr("x")} }
    [] OTHER -> {}

\* inputs of the operations above: the required members alone, no member,
\* the optional members of their type, null, and each of another type, and
\* the inputs that matter to the operation.  An operation that ignores its
\* input is given no member and one it does not know
ServiceInputs(kind) ==
  IF kind \in IgnoresInput THEN {EmptyObject, [x |-> JInt(1)]}
  ELSE {ValidInputOf(kind), EmptyObject}
       \cup { ValidInputOf(kind)
                @@ [f \in DOMAIN OptionalMembers(kind) |->
                      OptionalTyped(OptionalMembers(kind)[f])],
              ValidInputOf(kind)
                @@ [f \in DOMAIN OptionalMembers(kind) |-> JNull] }
       \cup { ValidInputOf(kind)
                @@ (f :> OptionalMistyped(OptionalMembers(kind)[f])) :
                f \in DOMAIN OptionalMembers(kind) }
       \cup ServiceExtraInputs(kind)

\* every registered operation
AllKinds == { RegisterAllOrder[k].kind : k \in DOMAIN RegisterAllOrder }

\* the executes served once the built-in operations are registered: of
\* every operation, with the invalid inputs of each that has required
\* members; "FOO" is no registered name
ServeRequests ==
  { <<"TRANSFER", input>> : input \in TransferInputs }
  \cup { <<"FOO", input>> : input \in FewInputs }
  \cup { <<NameOfKind(k), input>> : k \in NftKinds, input \in NftInputs }
  \cup { <<NameOfKind(k), ThirdPartyValidInput(k)>> : k \in ThirdPartyKinds }
  \cup { <<NameOfKind(k), EmptyObject>> : k \in ThirdPartyKinds }
  \cup UNION { { <<NameOfKind(k), input>> :
                   input \in ThirdPartyOptionalInputs(k) } :
                 k \in {"TradeAction", "BidOnMagicEdenNftAction"} }
  \cup UNION { { <<NameOfKind(k), input>> : input \in QueryInputs(k) } :
                 k \in QueryKinds }
  \cup UNION { { <<NameOfKind(k), input>> : input \in PlaceholderInputs(k) } :
                 k \in PlaceholderKinds }
  \cup UNION { { <<NameOfKind(k), input>> : input \in ServiceInputs(k) } :
                 k \in ServiceKinds }
  \cup UNION { { <<NameOfKind(k), input>> : input \in InvalidInputs(k) } :
                 k \in AllKinds }

\* the amounts of the conversion round trip, all non-negative
AmountSamples ==
  {Amt_0, Amt_0_1, Amt_5, Amt_4em10, Amt_0_004, Amt_1e11, Amt_0_58, Amt_1_14,
   Amt_0_003919, Amt_1em9, Amt_1, Amt_123_456, Amt_18_5, Amt_1915em9}

(***************************************************************************)
(* Specifications.                                                         *)
(***************************************************************************)
Init ==
  /\ actions = NewRegistry
  /\ regCount = 0
  /\ lastReg = NewRegistry
  /\ regOrder = <<>>
  /\ metaOut = NoMeta
  /\ inv = [i \in Invs |-> IdleInv]
  /\ tokenAccounts \in SUBSET AtaUniverse
  /\ mintKeys = <<>>

\* the steps of a TRANSFER in slot i
StepTransfer(i) ==
  \/ TransferActionCall(i)
  \/ \E ok \in BOOLEAN : TransferGetMint(i, ok)
  \/ \E ok \in BOOLEAN : TransferGetDest(i, ok)
  \/ \E r \in Blockhashes \cup {"rpc error"} : TransferBlockhash(i, r)
  \/ \E signed \in BOOLEAN : TransferSign(i, signed)
  \/ \E accept \in BOOLEAN : TransferSend(i, accept)

\* the steps of MINT_NFT and DEPLOY_COLLECTION in slot i
StepNft(i) ==
  \/ NftActionCall(i, KeypairNew)
  \/ \E ok \in BOOLEAN : NftGetRent(i, ok)
  \/ \E r \in Blockhashes \cup {"rpc error"} : NftBlockhash(i, r)
  \/ \E signed \in BOOLEAN : NftSign(i, signed)
  \/ \E accept \in BOOLEAN : NftSend(i, accept)

\* the steps of the operations that submit a third-party transaction
StepThirdParty(i) ==
  \/ ThirdPartyCall(i)
  \/ \E r \in SendOutcomes : TradeQuote(i, r)
  \/ \E k \in 1..Len(QuoteBodies) : TradeQuoteBody(i, QuoteBodies[k])
  \/ \E r \in SendOutcomes : ThirdPartyHttp(i, r)
  \/ \E k \in 1..Len(ThirdPartyBodies(inv[i].op.kind)) :
       ThirdPartyBody(i, ThirdPartyBodies(inv[i].op.kind)[k])
  \/ \E r \in Blockhashes \cup {"rpc error"} : ThirdPartyBlockhash(i, r)
  \/ \E signed \in BOOLEAN : ThirdPartySign(i, signed)
  \/ \E accept \in BOOLEAN : ThirdPartySend(i, accept)

\* the steps of the operations that sign nothing
StepQuery(i) ==
  \/ PlaceholderCall(i)
  \/ QueryCall(i)
  \/ \E r \in SendOutcomes : QueryHttp(i, r)
  \/ \E k \in 1..Len(QueryBodies(inv[i].op.kind, inv[i].pc)) :
       QueryBody(i, QueryBodies(inv[i].op.kind, inv[i].pc)[k])
  \/ \E r \in BalanceAnswers : BalanceQuery(i, r)

\* the steps of the other operations that sign nothing
StepService(i) ==
  \/ ServiceCall(i)
  \/ \E r \in SendOutcomes : ServiceHttp(i, r)
  \/ \E k \in 1..Len(ServiceBodies(inv[i].op.kind)) :
       ServiceBody(i, ServiceBodies(inv[i].op.kind)[k])
  \/ \E k \in 1..Len(PlainBodies) : ServiceText(i, PlainBodies[k])
  \/ \E r \in BalanceAnswers : TokenBalancesLamports(i, r)
  \/ \E r \in PerfAnswers : GetTpsSamples(i, r)
  \/ \E ok \in BOOLEAN : RequestAirdrop(i, ok)
  \/ \E r \in Blockhashes \cup {"rpc error"} : AirdropBlockhash(i, r)
  \/ \E ok \in BOOLEAN : AirdropConfirm(i, ok)

\* Spec: registrations in any order, metadata(), and one execute at a time
Next ==
  \/ (regCount < MaxRegs /\ \E a \in RegOps : Register(a))
  \/ (regCount < MaxRegs /\ RegisterAllActions)
  \/ (regCount < MaxRegs /\ register_token_actions)
  \/ (regCount < MaxRegs /\ register_defi_actions)
  \/ (regCount < MaxRegs /\ register_nft_actions)
  \/ (regCount < MaxRegs /\ register_misc_actions)
  \/ MetadataCall
  \/ \E name \in {"TRANSFER", "FOO", "send sol", "TRADE_X"}, input \in FewInputs :
       Execute("i1", name, input)
  \/ StepTransfer("i1")
  \/ \E r \in CustomResults : CustomActionCall("i1", r)
  \/ Return("i1")

Spec == Init /\ [][Next]_vars

\* SpecReads: single registrations, the three readers of the registry
\* (metadata, all, get) and one execute at a time, on an empty ledger
InitReads == Init /\ tokenAccounts = {}

NextReads ==
  \/ (regCount < MaxRegs /\ \E a \in RegOps : Register(a))
  \/ MetadataCall
  \/ AllCall
  \/ \E name \in {"TRANSFER", "FOO", "send sol", "TRADE"} : GetCall(name)
  \/ \E name \in {"TRANSFER", "FOO", "send sol"}, input \in FewInputs :
       Execute("i1", name, input)
  \/ StepTransfer("i1")
  \/ \E r \in CustomResults : CustomActionCall("i1", r)
  \/ Return("i1")

SpecReads == InitReads /\ [][NextReads]_vars

\* SpecServe: the registry is filled once by register_all_actions, then
\* executes are served one at a time
NextServe ==
  \/ (regCount = 0 /\ RegisterAllActions)
  \/ \E rq \in ServeRequests : Execute("i1", rq[1], rq[2])
  \/ StepTransfer("i1")
  \/ StepNft("i1")
  \/ StepThirdParty("i1")
  \/ StepQuery("i1")
  \/ StepService("i1")
  \/ Return("i1")

SpecServe == Init /\ [][NextServe]_vars

\* any step of the call in slot i
StepAny(i) ==
  \/ StepTransfer(i) \/ StepNft(i) \/ StepThirdParty(i) \/ StepQuery(i)
  \/ StepService(i)

\* SpecLive: SpecServe where every network call, HTTP exchange and signer
\* call of a running execute eventually returns, so that the code that
\* follows it runs
SpecLive == Init /\ [][NextServe]_vars /\ WF_vars(StepAny("i1"))

\* SpecConc: the registry is filled once, then two executes of TRANSFER run
\* concurrently against the one Agent; their network and signer calls
\* interleave in every order
NextConc ==
  \/ (regCount = 0 /\ RegisterAllActions)
  \/ \E i \in Invs, input \in ConcInputs : Execute(i, "TRANSFER", input)
  \/ \E i \in Invs : StepTransfer(i)
  \/ \E i \in Invs : Return(i)

SpecConc == Init /\ [][NextConc]_vars

\* SpecMint: the registry is filled once, then executes of MINT_NFT and
\* DEPLOY_COLLECTION run one after another and concurrently, on a ledger
\* without token accounts
MintInputs ==
  { [name |-> JStr("Art"), uri |-> JStr("https://u")],
    [name |-> JStr("Art")] }

InitMint == Init /\ tokenAccounts = {}

NextMint ==
  \/ (regCount = 0 /\ RegisterAllActions)
  \/ \E i \in Invs, kind \in NftKinds, input \in MintInputs :
       Execute(i, NameOfKind(kind), input)
  \/ \E i \in Invs : StepNft(i)
  \/ \E i \in Invs : Return(i)

SpecMint == InitMint /\ [][NextMint]_vars

\* SpecAmount: the amount conversions of Agent::transfer and
\* Agent::get_balance applied to every sample amount and precision
InitAmount ==
  /\ actions = NewRegistry
  /\ regCount = 0
  /\ lastReg = NewRegistry
  /\ regOrder = <<>>
  /\ metaOut = NoMeta
  /\ tokenAccounts = {}
  /\ mintKeys = <<>>
  /\ \E a \in AmountSamples, d \in 0..MaxDecimals :
       inv = [i \in Invs |->
                IF i = "i1"
                THEN [IdleInv EXCEPT !.pc = "amount", !.amount = a,
                                     !.decimals = d]
                ELSE IdleInv]

\* (amount * 10f64.powi(decimals as i32)) as u64
ScaleAmount(i) ==
  /\ inv[i].pc = "amount"
  /\ inv' = [inv EXCEPT ![i].pc = "scaled",
                        ![i].base_units = ToBaseUnits(inv[i].amount,
                                                      inv[i].decimals)]
  /\ UNCHANGED <<actions, regCount, lastReg, regOrder, metaOut, tokenAccounts, mintKeys>>

\* units as f64 / 10^decimals, the conversion of Agent::get_balance
UnscaleAmount(i) ==
  /\ inv[i].pc = "scaled"
  /\ inv' = [inv EXCEPT ![i].pc = "unscaled",
                        ![i].balance = FromBaseUnits(inv[i].base_units,
                                                     inv[i].decimals)]
  /\ UNCHANGED <<actions, regCount, lastReg, regOrder, metaOut, tokenAccounts, mintKeys>>

NextAmount == ScaleAmount("i1") \/ UnscaleAmount("i1")

SpecAmount == InitAmount /\ [][NextAmount]_vars

\* SpecWallet: KeypairWallet::sign_all_transactions applied to every batch
\* of at most MaxBatch drafts: drafts compiled by the program (unsigned)
\* and drafts received from a service (with or without earlier signatures)
WalletDrafts ==
  ServiceTxs \cup
  { [message |-> CompileMessage(WalletKey,
                   <<system_transfer(WalletKey, "Alice",
                                     BaseUnitsOf[Amt_5, LamportsDecimals])>>, b),
     signatures |-> <<>>] : b \in Blockhashes }

Batches == UNION { [1..n -> WalletDrafts] : n \in 0..MaxBatch }

InitWallet ==
  /\ actions = NewRegistry
  /\ regCount = 0
  /\ lastReg = NewRegistry
  /\ regOrder = <<>>
  /\ metaOut = NoMeta
  /\ tokenAccounts = {}
  /\ mintKeys = <<>>
  /\ \E batch \in Batches :
       inv = [i \in Invs |->
                IF i = "i1"
                THEN [IdleInv EXCEPT !.pc = "sign_all_transactions",
                                     !.txs = batch]
                ELSE IdleInv]

\* agent.wallet.sign_all_transactions(txs).await
SignAllTransactions(i) ==
  /\ inv[i].pc = "sign_all_transactions"
  /\ inv' = [inv EXCEPT ![i].pc = "signed_all",
                        ![i].calls = Append(@, "sign_all_transactions"),
                        ![i].signed_txs = sign_all_transactions(inv[i].txs)]
  /\ UNCHANGED <<actions, regCount, lastReg, regOrder, metaOut, tokenAccounts, mintKeys>>

NextWallet == SignAllTransactions("i1")

SpecWallet == InitWallet /\ [][NextWallet]_vars

\* SpecCast: the scaling, the cast to u64 and the zero check of
\* Agent::transfer applied to amounts of every kind an f64 can hold:
\* negative, NaN, infinite, around 2^64 and beyond, and ordinary ones
CastSamples ==
  { Amt_5, Amt_0_004, Amt_1e11, Amt_neg1,
    [Amt_1e11 EXCEPT !.neg = TRUE], [Amt_4em10 EXCEPT !.neg = TRUE],
    F64Fin(TRUE, <<>>, 0), F64NaN, F64Inf(FALSE), F64Inf(TRUE),
    F64Fin(FALSE, BigOne, 63), F64Fin(FALSE, BigOne, 64),
    F64Fin(FALSE, BigSub(BigShl(BigOne, 53), BigOne), 11),
    F64Fin(FALSE, BigSub(BigShl(BigOne, 53), BigOne), 971) }

InitCast ==
  /\ actions = NewRegistry
  /\ regCount = 0
  /\ lastReg = NewRegistry
  /\ regOrder = <<>>
  /\ metaOut = NoMeta
  /\ tokenAccounts = {}
  /\ mintKeys = <<>>
  /\ \E a \in CastSamples, d \in 0..MaxDecimals :
       inv = [i \in Invs |->
                IF i = "i1"
                THEN [IdleInv EXCEPT !.pc = "amount", !.amount = a,
                                     !.decimals = d]
                ELSE IdleInv]

\* (amount * 10f64.powi(decimals as i32)) as u64 and the check
\* `if amount_in_base_units == 0 { return Err(..) }`
ScaleAndCheck(i) ==
  /\ inv[i].pc = "amount"
  /\ LET units == ToBaseUnits(inv[i].amount, inv[i].decimals)
     IN  inv' = IF IsZeroUnits(units)
                THEN Finish(i, Err(TooSmall))
                ELSE [inv EXCEPT ![i].pc = "scaled", ![i].base_units = units]
  /\ UNCHANGED <<actions, regCount, lastReg, regOrder, metaOut, tokenAccounts, mintKeys>>

NextCast == ScaleAndCheck("i1")

SpecCast == InitCast /\ [][NextCast]_vars

(***************************************************************************)
(* Properties.                                                             *)
(***************************************************************************)
\* vocabulary of the properties
StatusValues == {"success", "error", "info"}

HasStatus(v) ==
  /\ "status" \in DOMAIN v
  /\ IsJStr(v["status"])
  /\ v["status"].str \in StatusValues

HasCall(i, c) == \E k \in 1..Len(inv[i].calls) : inv[i].calls[k] = c

CountCalls(i, c) ==
  Cardinality({ k \in 1..Len(inv[i].calls) : inv[i].calls[k] = c })

IsCreateAta(ix) == ix.program = "ATokenProgram" /\ ix.ix = "create"

CreateCount(ixs) == Cardinality({ k \in 1..Len(ixs) : IsCreateAta(ixs[k]) })

\* Agent::transfer has composed the instruction sequence of a token transfer
TokenComposed(i) ==
  /\ inv[i].op.kind = "TransferAction"
  /\ inv[i].mint # ""
  /\ \/ inv[i].pc \in {"get_latest_blockhash", "sign_transaction",
                       "send_and_confirm"}
     \/ inv[i].pc = "done" /\ HasCall(i, "get_latest_blockhash")

\* C1: for every registry state and every name that is no key of the
\* registry, execute fails with "Unknown action: <name>": no operation is
\* invoked, no network or signer call is made, nothing is submitted and no
\* JSON value is returned.
C1_UnknownNameFails ==
  \A i \in Invs :
    (inv[i].pc # "idle" /\ inv[i].name \notin DOMAIN actions) =>
      /\ inv[i].pc = "done"
      /\ inv[i].result = Err(<<"Unknown action: ", inv[i].name>>)
      /\ inv[i].op = NoOp
      /\ inv[i].calls = <<>>
      /\ inv[i].sent = <<>>

\* C1 is exercised: a simile of the registered TRANSFER, which is no key,
\* was executed on a non-empty registry and failed
C1_Witness ==
  /\ "TRANSFER" \in DOMAIN actions
  /\ inv["i1"].pc = "done"
  /\ inv["i1"].name = "send sol"
  /\ inv["i1"].result.kind = "err"

\* C2: after any sequence of register calls the registry holds exactly one
\* entry per distinct name, the entry is the operation of the most recent
\* register call for that name, and metadata() returns exactly one
\* descriptor per distinct name, each the descriptor of that latest
\* registration.
C2_LastRegistrationWins ==
  /\ DOMAIN actions = DOMAIN lastReg
  /\ \A n \in DOMAIN actions : actions[n] = lastReg[n] /\ actions[n].name = n
  /\ metaOut.called =>
       /\ Len(metaOut.list) = Cardinality(DOMAIN lastReg)
       /\ \A a, b \in 1..Len(metaOut.list) :
            a # b => metaOut.list[a].name # metaOut.list[b].name
       /\ \A k \in 1..Len(metaOut.list) :
            /\ metaOut.list[k].name \in DOMAIN lastReg
            /\ metaOut.list[k] = MetadataOf(lastReg[metaOut.list[k].name])

\* C2 is exercised: TRANSFER was registered more than once, the latest
\* registration being the caller's own operation, and metadata() was called
C2_Witness ==
  /\ "TRANSFER" \in DOMAIN lastReg
  /\ lastReg["TRANSFER"].id >= 2
  /\ lastReg["TRANSFER"].kind = "CustomAction"
  /\ Cardinality(DOMAIN actions) >= 2
  /\ metaOut.called

\* the input of a finished execute satisfies the operation's inputSchema
SchemaValid(i) ==
  inv[i].op.kind = "TransferAction" => inv[i].input \in TransferSchemaInputs

\* C3: for every operation registered by register_all_actions, an execute
\* whose input satisfies the inputSchema and that returns a JSON value
\* returns an object with a `status` field that is "success", "error" or
\* "info"; this includes the success result of TRANSFER.
C3_StatusInEveryValue ==
  \A i \in Invs :
    (/\ inv[i].pc = "done"
     /\ inv[i].op.kind # "none"
     /\ SchemaValid(i)
     /\ inv[i].result.kind = "ok") => HasStatus(inv[i].result.value)

\* C4: in a token transfer, whatever the destination query answered, the
\* composed sequence holds no create-associated-token-account instruction
\* if the destination's token account existed on the ledger at composition
\* time, and exactly one if it did not.
C4_CreateOnlyIfAbsent ==
  \A i \in Invs :
    TokenComposed(i) =>
      IF inv[i].destOnLedger
      THEN CreateCount(inv[i].instructions) = 0
      ELSE CreateCount(inv[i].instructions) = 1

\* C5: every transaction the program submits carries exactly as many
\* signatures as its message requires signers, and the entry at each index
\* is the signature of the required signer of that index.
C5_SignaturePerSigner ==
  \A i \in Invs :
    \A k \in 1..Len(inv[i].sent) : SignaturesValid(inv[i].sent[k])

\* the amount of a parsed TRANSFER converts to zero base units: of lamports
\* on the native path, of the mint's precision once the mint was unpacked
NativeZero(i) ==
  /\ inv[i].op.kind = "TransferAction"
  /\ inv[i].pc \notin {"idle", "call"}
  /\ inv[i].to # ""
  /\ inv[i].mint = ""
  /\ ToBaseUnits(inv[i].amount, LamportsDecimals) = <<>>

TokenZero(i) ==
  /\ inv[i].op.kind = "TransferAction"
  /\ inv[i].mint # ""
  /\ inv[i].token_program_id # ""
  /\ ToBaseUnits(inv[i].amount, LedgerAccount(inv[i].mint).decimals) = <<>>

\* C6: on the native path and on the token path, an amount that converts to
\* zero base units makes Agent::transfer fail, and at that point the
\* instruction sequence is empty, no blockhash was fetched, the signer was
\* not called and nothing was submitted.
C6_ZeroAmountRejectedEarly ==
  \A i \in Invs :
    (NativeZero(i) \/ TokenZero(i)) =>
      /\ inv[i].pc = "done"
      /\ inv[i].result = Err(TooSmall)
      /\ inv[i].instructions = <<>>
      /\ ~HasCall(i, "get_latest_blockhash")
      /\ ~HasCall(i, "sign_transaction")
      /\ ~HasCall(i, "send_and_confirm_transaction")
      /\ inv[i].tx = NoTx
      /\ inv[i].sent = <<>>

\* C6 is exercised: 0.004 of a mint with two decimals, a positive amount
\* that truncates to zero base units, was rejected after the mint query
C6_Witness ==
  /\ inv["i1"].pc = "done"
  /\ inv["i1"].mint = "MintCents"
  /\ inv["i1"].amount = Amt_0_004
  /\ inv["i1"].calls = <<"get_account">>
  /\ inv["i1"].result = Err(TooSmall)

\* |a - b| < 10^(-d) for finite f64 values a and b, computed exactly
WithinOneBaseUnit(a, b, d) ==
  /\ a.cls = "fin"
  /\ b.cls = "fin"
  /\ LET emin == IF a.e < b.e THEN a.e ELSE b.e
         A == BigShl(a.m, a.e - emin)
         B == BigShl(b.m, b.e - emin)
         diff == IF a.neg = b.neg THEN BigAbsDiff(A, B) ELSE BigAdd(A, B)
     IN  IF emin >= 0 THEN diff = <<>>
         ELSE BigLt(BigMulPow10(diff, d), BigShl(BigOne, 0 - emin))

\* C7: for every non-negative amount and every decimal precision d of the
\* range, scaling the amount to base units (multiply by 10^d, truncate to
\* u64) and converting back (divide by 10^d) gives a value that differs
\* from the amount by less than one base unit, 10^(-d).
C7_RoundTripWithinOneUnit ==
  \A i \in Invs :
    inv[i].pc = "unscaled" =>
      WithinOneBaseUnit(inv[i].amount, inv[i].balance, inv[i].decimals)

\* C8: a TRANSFER without mint whose amount is at least one lamport submits
\* a transaction of exactly one instruction, the system transfer from the
\* wallet to `to`, with exactly one signature, the wallet's; when the
\* network confirms it the dispatch returns a value with status "success"
\* that contains the signature submit-and-confirm returned.
C8_NativeTransferResult ==
  \A i \in Invs :
    (/\ inv[i].op.kind = "TransferAction"
     /\ inv[i].mint = ""
     /\ inv[i].sent # <<>>) =>
      LET tx == inv[i].sent[1]
      IN  /\ tx.message.instructions =
               <<system_transfer(WalletKey, inv[i].to, inv[i].base_units)>>
          /\ tx.signatures = <<Sig(WalletKey, tx.message)>>
          /\ inv[i].outcome = "Confirmed" =>
               /\ inv[i].result.kind = "ok"
               /\ HasStatus(inv[i].result.value)
               /\ inv[i].result.value["status"] = JStr("success")
               /\ \E f \in DOMAIN inv[i].result.value :
                    inv[i].result.value[f] = JSigStr(tx.signatures[1])

\* the token transfer of invocation i has asked the ledger for the
\* destination's token account: the second get_account of Agent::transfer
DestQueried(i) ==
  /\ inv[i].op.kind = "TransferAction"
  /\ inv[i].mint # ""
  /\ Cardinality({ k \in 1..Len(inv[i].calls) :
                     inv[i].calls[k] = "get_account" }) >= 2

\* C9: for a TRANSFER with a mint whose destination token account does not
\* exist and whose amount is not zero in base units, the composed
\* instruction sequence has length 2, with the
\* create-associated-token-account instruction first and the transfer
\* instruction second, and the submitted transaction carries exactly one
\* signature.  Required of every mint the ledger holds, whichever token
\* program owns it.
C9_CreateThenTransfer ==
  \A i \in Invs :
    (DestQueried(i) /\ ~inv[i].destOnLedger
       /\ ~IsZeroUnits(inv[i].base_units)) =>
      /\ Len(inv[i].instructions) = 2
      /\ inv[i].instructions[1] =
           create_associated_token_account(WalletKey, inv[i].to, inv[i].mint,
                                           inv[i].token_program_id)
      /\ inv[i].instructions[2].ix = "transfer_checked"
      /\ inv[i].instructions[2].destination =
           get_associated_token_address(inv[i].to, inv[i].mint)
      /\ inv[i].instructions[2].amount = inv[i].base_units
      /\ \A k \in 1..Len(inv[i].sent) :
           /\ inv[i].sent[k].message.instructions = inv[i].instructions
           /\ Len(inv[i].sent[k].signatures) = 1

\* the network and signer calls of the stages Stamped, Signed, Submitted
StageCalls ==
  <<"get_latest_blockhash", "sign_transaction", "send_and_confirm_transaction">>

\* the calls of invocation i that belong to the stages, in the order made
StageTrace(i) ==
  LET staged(c) == \E k \in 1..Len(StageCalls) : StageCalls[k] = c
  IN  SelectSeq(inv[i].calls, staged)

\* C10: a transfer attempt only moves forward through Draft, Stamped,
\* Signed, Submitted, Confirmed | Rejected: the blockhash is fetched at most
\* once, the signer is called at most once, submit-and-confirm is called at
\* most once, in this order; after a rejected submission the invocation has
\* ended in failure and composes, signs and submits nothing more.
C10_ForwardOnly ==
  \A i \in Invs :
    inv[i].op.kind = "TransferAction" =>
      /\ Len(StageTrace(i)) <= 3
      /\ StageTrace(i) = SubSeq(StageCalls, 1, Len(StageTrace(i)))
      /\ Len(inv[i].sent) <= 1
      /\ inv[i].pc = "sign_transaction" => Len(StageTrace(i)) = 1
      /\ inv[i].pc = "send_and_confirm" => Len(StageTrace(i)) = 2
      /\ inv[i].pc \in {"call", "get_mint_account", "get_dest_account",
                        "get_latest_blockhash"} => StageTrace(i) = <<>>
      /\ Len(StageTrace(i)) = 3 =>
           /\ inv[i].pc = "done"
           /\ inv[i].outcome \in {"Confirmed", "Rejected"}
      /\ inv[i].outcome = "Rejected" =>
           /\ inv[i].pc = "done"
           /\ inv[i].result.kind = "err"
      /\ inv[i].outcome = "Confirmed" =>
           /\ inv[i].pc = "done"
           /\ inv[i].result.kind = "ok"

\* C10 is exercised: a transfer went through every stage and was rejected
C10_Witness ==
  /\ inv["i1"].op.kind = "TransferAction"
  /\ inv["i1"].outcome = "Rejected"
  /\ inv["i1"].calls = <<"get_account", "get_account", "get_latest_blockhash",
                         "sign_transaction", "send_and_confirm_transaction">>
  /\ inv["i1"].pc = "done"

\* C11: when the network declines a transaction at submission, the dispatch
\* ends in a propagated failure and never in a JSON value, whether a success
\* value or a value with status "error"; this holds of TRANSFER and of every
\* other operation that submits, SEND_TRANSACTION_WITH_PRIORITY included.
C11_DeclinedSubmissionFails ==
  \A i \in Invs :
    (inv[i].pc = "done" /\ inv[i].outcome = "Rejected") =>
       inv[i].result.kind = "err"

\* C12: when the wallet's sign_transaction fails, the dispatch ends in a
\* propagated failure, never in a JSON value, and submit-and-confirm is not
\* called in that invocation: nothing was sent and the invocation is over.
C12_SigningFailureIsFatal ==
  \A i \in Invs :
    inv[i].outcome = "SigningUnavailable" =>
      /\ inv[i].pc = "done"
      /\ inv[i].result.kind = "err"
      /\ inv[i].sent = <<>>
      /\ ~HasCall(i, "send_and_confirm_transaction")
      /\ inv[i].calls[Len(inv[i].calls)] = "sign_transaction"

\* C12 is exercised: the signing of a composed MINT_NFT draft failed
C12_Witness ==
  /\ inv["i1"].op.kind = "MintNftAction"
  /\ inv["i1"].outcome = "SigningUnavailable"
  /\ inv["i1"].tx.message.recent_blockhash \in Blockhashes
  /\ inv["i1"].result = Err(<<"wallet: sign_transaction">>)

\* C13: when a downstream call answered with a non-success HTTP status, or a
\* collaborator lookup reported not-found or failed, the dispatch ends in a
\* JSON value with status "error" and a message: it neither propagates a
\* failure nor returns status "success".  Required of every operation that
\* calls a downstream service, FETCH_PRICE, TRADE, PYTH_FETCH_PRICE and
\* BALANCE_ACTION with a token mint included.
C13_DownstreamFailureIsErrorValue ==
  \A i \in Invs :
    (inv[i].pc = "done" /\ inv[i].downstream # "") =>
      /\ inv[i].result.kind = "ok"
      /\ "status" \in DOMAIN inv[i].result.value
      /\ inv[i].result.value.status = JStr("error")
      /\ "message" \in DOMAIN inv[i].result.value

\* the required members of the operation of invocation i: strings, numbers
\* and lists of strings
RequiredStringFields(i) == RequiredStringsOf(inv[i].op.kind)
RequiredNumberFields(i) == RequiredNumbersOf(inv[i].op.kind)
RequiredListFields(i) == RequiredListsOf(inv[i].op.kind)

\* the input of invocation i lacks a required member or gives it a wrong
\* type
LacksRequired(i) ==
  \/ \E f \in RequiredStringFields(i) :
       f \notin DOMAIN inv[i].input \/ ~IsJStr(inv[i].input[f])
  \/ \E f \in RequiredNumberFields(i) :
       f \notin DOMAIN inv[i].input \/ ~JHasType(inv[i].input[f], "f64")
  \/ \E f \in RequiredListFields(i) :
       f \notin DOMAIN inv[i].input
         \/ ~JHasType(inv[i].input[f], "Vec<String>")

\* C14: for every operation with required input fields (TRANSFER: `to` and
\* `amount`), a dispatch whose input lacks a required field or gives it a
\* wrong type ends in a propagated failure before any network call, signer
\* call or instruction construction, and returns no JSON value.
C14_InvalidInputFailsFirst ==
  \A i \in Invs :
    (inv[i].pc \notin {"idle", "call"} /\ LacksRequired(i)) =>
      /\ inv[i].pc = "done"
      /\ inv[i].result.kind = "err"
      /\ inv[i].calls = <<>>
      /\ inv[i].sent = <<>>
      /\ inv[i].instructions = <<>>
      /\ inv[i].tx = NoTx

\* the registered operations whose Input struct has a required member
WithRequired == { kind \in AllKinds : RequiredOf(kind) # {} }

\* all 43 of them are dispatched, for each of their required members, with
\* an input that lacks the member and with one that gives it another type
InvalidInputsServed ==
  /\ Cardinality(WithRequired) = 43
  /\ \A kind \in WithRequired :
       \A f \in RequiredOf(kind) :
         /\ \E rq \in ServeRequests :
              rq[1] = NameOfKind(kind) /\ f \notin DOMAIN rq[2]
         /\ \E rq \in ServeRequests :
              /\ rq[1] = NameOfKind(kind)
              /\ f \in DOMAIN rq[2]
              /\ ~JHasType(rq[2][f], RequiredType(kind, f))

\* C14 is exercised: every operation with required members is served its
\* invalid inputs, and here CREATE_HELIUS_WEBHOOK, given its two strings
\* and a list that holds a number as `accountAddresses`, was parsed and
\* failed
C14_Witness ==
  /\ inv["i1"].op.kind = "CreateHeliusWebhookAction"
  /\ inv["i1"].pc = "done"
  /\ {"accountAddresses", "webhookURL", "heliusApiKey"}
       \subseteq DOMAIN inv["i1"].input
  /\ IsJStr(inv["i1"].input["webhookURL"])
  /\ IsJStr(inv["i1"].input["heliusApiKey"])
  /\ IsJArr(inv["i1"].input["accountAddresses"])
  /\ ~JHasType(inv["i1"].input["accountAddresses"], "Vec<String>")
  /\ inv["i1"].result = Err(<<"serde_json: invalid input">>)
  /\ InvalidInputsServed

\* the transaction holds an instruction that creates token account a
CreatesAccount(tx, a) ==
  \E k \in 1..Len(tx.message.instructions) :
    /\ IsCreateAta(tx.message.instructions[k])
    /\ tx.message.instructions[k].account = a

\* C15: of two concurrent token transfers to one destination whose drafts
\* both hold the create-account instruction (both saw the account absent),
\* the one submitted after the other was confirmed is rejected by the
\* network and ends in an ordinary propagated failure; the other
\* invocation, the ledger and the registry are left as they were.
C15_SecondCreateRejected ==
  [][\A i, j \in Invs : \A a \in AtaUniverse :
       ( /\ i # j
         /\ inv[i].pc = "send_and_confirm"
         /\ inv'[i].pc # "send_and_confirm"
         /\ CreatesAccount(inv[i].tx, a)
         /\ inv[j].outcome = "Confirmed"
         /\ CreatesAccount(inv[j].tx, a) )
       => /\ inv'[i].pc = "done"
          /\ inv'[i].outcome = "Rejected"
          /\ inv'[i].result.kind = "err"
          /\ inv'[j] = inv[j]
          /\ tokenAccounts' = tokenAccounts
          /\ actions' = actions]_vars

\* C15 is exercised: both transfers saw Alice's account absent, the second
\* one's was confirmed first and the first one's was then rejected
C15_Witness ==
  LET a == get_associated_token_address("Alice", "MintUSDC")
  IN  /\ ~inv["i1"].destOnLedger /\ ~inv["i2"].destOnLedger
      /\ CreatesAccount(inv["i1"].tx, a) /\ CreatesAccount(inv["i2"].tx, a)
      /\ inv["i2"].outcome = "Confirmed" /\ inv["i2"].result.kind = "ok"
      /\ inv["i1"].outcome = "Rejected" /\ inv["i1"].result.kind = "err"
      /\ inv["i1"].pc = "done"

\* the step leaves the locals of every invocation but at most one as they
\* were, and changes the ledger only by a submission that was confirmed
OneInvocationSteps ==
  /\ \A i, j \in Invs : (i # j /\ inv'[i] # inv[i]) => inv'[j] = inv[j]
  /\ tokenAccounts' # tokenAccounts =>
       \E i \in Invs : /\ inv[i].pc = "send_and_confirm"
                       /\ inv'[i].outcome = "Confirmed"

\* the step of another invocation leaves what the ledger will answer to
\* invocation j as it was: whether its destination account exists when it
\* composes its draft, and whether its signed draft can be accepted
LedgerAnswersKept(j) ==
  /\ inv[j].pc = "get_dest_account" =>
       LET dest == get_associated_token_address(inv[j].to, inv[j].mint)
       IN  (dest \in tokenAccounts') <=> (dest \in tokenAccounts)
  /\ inv[j].pc = "send_and_confirm" =>
       (NetworkCanAccept(inv[j].tx, tokenAccounts')
          <=> NetworkCanAccept(inv[j].tx, tokenAccounts))

\* C16 as stated: two concurrent transfers share no mutable state, every
\* interleaving of their network steps is allowed, and the outcome of one
\* never changes the draft or the outcome of the other.
C16_OutcomesIndependent ==
  [][/\ OneInvocationSteps
     /\ \A j \in Invs : inv'[j] = inv[j] => LedgerAnswersKept(j)]_vars

\* a network or signer step of the transfer of invocation i
TransferNetworkStep(i) ==
  \/ \E ok \in BOOLEAN : TransferGetMint(i, ok)
  \/ \E ok \in BOOLEAN : TransferGetDest(i, ok)
  \/ \E r \in Blockhashes : TransferBlockhash(i, r)
  \/ \E signed \in BOOLEAN : TransferSign(i, signed)
  \/ \E accept \in BOOLEAN : TransferSend(i, accept)

\* C16, amended: two concurrent transfers share no mutable state of the
\* process: a step of one leaves the locals, the draft and the result of
\* the other untouched, and the ledger changes only by a confirmed
\* submission; every interleaving is allowed: an invocation that is at a
\* network or signer step can take it whatever the other is doing, so two
\* signed drafts can be confirmed in either order.
C16_NoSharedMutableState ==
  /\ [](\A i \in Invs :
          inv[i].pc \notin {"idle", "call", "done"}
            => ENABLED TransferNetworkStep(i))
  /\ [](\A i \in Invs :
          (inv[i].pc = "send_and_confirm"
             /\ NetworkCanAccept(inv[i].tx, tokenAccounts))
          => ENABLED (TransferSend(i, TRUE) /\ inv'[i].outcome = "Confirmed"))
  /\ [][OneInvocationSteps]_vars

\* C16 is exercised: the second invocation's transfer created Alice's
\* account and was confirmed, the first one then found the account on the
\* ledger, composed a draft without the create instruction and was
\* confirmed after it
C16_Witness ==
  LET a == get_associated_token_address("Alice", "MintUSDC")
  IN  /\ inv["i2"].outcome = "Confirmed" /\ CreatesAccount(inv["i2"].tx, a)
      /\ inv["i1"].outcome = "Confirmed" /\ inv["i1"].mint = "MintUSDC"
      /\ inv["i1"].destOnLedger
      /\ CreateCount(inv["i1"].tx.message.instructions) = 0

\* the dispatch of invocation i returned a success result: a JSON value
\* that does not report an error
SuccessResult(i) ==
  /\ inv[i].pc = "done"
  /\ inv[i].result.kind = "ok"
  /\ "status" \in DOMAIN inv[i].result.value
       => inv[i].result.value.status # JStr("error")

\* the operation of invocation i did something: a transaction it submitted
\* was taken by the network, a query it made was answered, or it answered
\* what it was asked from what the process holds (the wallet's address, the
\* lists of domains and markets)
DidSomething(i) ==
  \/ inv[i].sent # <<>> /\ inv[i].outcome \in {"Confirmed", "Submitted"}
  \/ /\ inv[i].sent = <<>>
     /\ inv[i].calls # <<>>
     /\ inv[i].downstream # "lookup failed"
  \/ inv[i].op.kind \in {"WalletAddressAction", "GetAllDomainsTldsAction",
                         "GetDriftMarketsAction"}

\* every execute that was begun ends
DispatchEnds ==
  \A i \in Invs : (inv[i].pc \notin {"idle", "done"}) ~> (inv[i].pc = "done")

\* C17: every dispatch eventually ends, provided every network and signer
\* call eventually returns, in exactly one of two outcomes, a propagated
\* failure or a JSON object; and no dispatch of a registered operation that
\* did nothing (no query answered, no transaction submitted) returns a
\* success result.
C17_DispatchEndsAndNoSilentNoOp ==
  /\ DispatchEnds
  /\ [](\A i \in Invs :
          inv[i].pc = "done" =>
            \/ inv[i].result.kind = "err" /\ inv[i].result.value = EmptyObject
            \/ inv[i].result.kind = "ok" /\ inv[i].result.value # EmptyObject)
  /\ [](\A i \in Invs :
          (SuccessResult(i) /\ inv[i].op # NoOp) => DidSomething(i))

\* C18: ActionRegistry::metadata() returns the descriptors in the order in
\* which their operations were first registered.
C18_MetadataInRegistrationOrder ==
  metaOut.called =>
    /\ ~metaOut.permuted
    /\ [k \in 1..Len(metaOut.list) |-> metaOut.list[k].name] = regOrder

\* C19: the registry is changed only by register: get, all, metadata and
\* execute, whether it ends in a success value, an error value or a
\* failure, leave the set of registered names and the operation bound to
\* each name as they were.
C19_OnlyRegisterChangesRegistry ==
  [][actions' # actions =>
       /\ regCount' > regCount
       /\ inv' = inv
       /\ \A n \in DOMAIN actions : n \in DOMAIN actions']_vars

\* C19 is exercised: after two or more register calls an execute of a
\* caller's operation ended in an error value and get was then called
C19_Witness ==
  /\ inv["i1"].pc = "done"
  /\ inv["i1"].result = Ok(ErrorValue("custom error"))
  /\ "read" \in DOMAIN metaOut
  /\ metaOut.read = "get"
  /\ metaOut.ops = <<actions[inv["i1"].name]>>
  /\ actions = lastReg
  /\ regCount >= 2

(***************************************************************************)
(* C20: in every operation that signs and submits, the blockhash in the    *)
(* draft handed to the signer was fetched by get_latest_blockhash in the   *)
(* same invocation, after every other query, with no network call between  *)
(* the fetch and the signing: the call just before sign_transaction is     *)
(* get_latest_blockhash, it is the only such call so far, and its answer   *)
(* is the recent blockhash of the draft.                                   *)
(***************************************************************************)
SignPosition(i) ==
  CHOOSE k \in 1..Len(inv[i].calls) : inv[i].calls[k] = "sign_transaction"

C20_BlockhashFetchedJustBeforeSigning ==
  \A i \in Invs :
    HasCall(i, "sign_transaction") =>
      LET k == SignPosition(i)
      IN  /\ k > 1
          /\ inv[i].calls[k - 1] = "get_latest_blockhash"
          /\ \A j \in 1..(k - 2) : inv[i].calls[j] # "get_latest_blockhash"
          /\ inv[i].latest_blockhash \in Blockhashes
          /\ inv[i].tx.message.recent_blockhash = inv[i].latest_blockhash

(***************************************************************************)
(* C21: once a draft carries its fetched blockhash, signing and submitting *)
(* never change its message; a signing step only adds signatures and       *)
(* leaves every signature already present as it was; and on the way to     *)
(* submission each required signer's slot is written exactly once, so the  *)
(* draft handed to the network holds, in the slot of every required        *)
(* signer, that signer's signature over the message.                       *)
(***************************************************************************)
IsStamped(me) ==
  me.latest_blockhash \in Blockhashes /\ me.pc \in {"sign_transaction", "send_and_confirm"}

SignaturesKept(before, after) ==
  /\ Len(after.signatures) >= Len(before.signatures)
  /\ \A k \in 1..Len(before.signatures) :
       after.signatures[k] = before.signatures[k]

SlotsWrittenOnce(tx) ==
  \A k \in 1..Len(tx.message.signers) :
    /\ k <= Len(tx.signatures)
    /\ tx.signatures[k] = Sig(tx.message.signers[k], tx.message)

StampedDraftStep(i) ==
  IsStamped(inv[i]) =>
    /\ inv[i].pc = "sign_transaction" /\ inv'[i].pc = "send_and_confirm" =>
         /\ inv'[i].tx.message = inv[i].tx.message
         /\ SignaturesKept(inv[i].tx, inv'[i].tx)
    /\ Len(inv'[i].sent) > Len(inv[i].sent) =>
         /\ inv'[i].sent[Len(inv'[i].sent)] = inv[i].tx
         /\ SlotsWrittenOnce(inv[i].tx)

C21_StampedDraftOnlyGainsSignatures ==
  [][\A i \in Invs : StampedDraftStep(i)]_vars

(***************************************************************************)
(* C22: sign_all_transactions returns a list of the same length and order  *)
(* as its input, whose k-th element is what sign_transaction returns for   *)
(* the k-th draft alone: signing one draft of a batch neither depends on   *)
(* nor changes any other draft.                                            *)
(***************************************************************************)
C22_BatchSigningIsPerDraft ==
  \A i \in Invs :
    inv[i].pc = "signed_all" =>
      /\ Len(inv[i].signed_txs) = Len(inv[i].txs)
      /\ \A k \in 1..Len(inv[i].txs) :
           inv[i].signed_txs[k] = sign_transaction(inv[i].txs[k])

\* a batch of three drafts, two of them different and one already holding
\* signatures, has been signed
C22_Witness ==
  /\ inv["i1"].pc = "signed_all"
  /\ Len(inv["i1"].txs) = MaxBatch
  /\ inv["i1"].txs[1].message # inv["i1"].txs[2].message
  /\ inv["i1"].txs[3] = TxTwoSlots
  /\ Len(inv["i1"].signed_txs[3].signatures) = 3

(***************************************************************************)
(* C23: MINT_NFT and DEPLOY_COLLECTION compose exactly six instructions,   *)
(* in the order create mint account, initialize mint, create associated    *)
(* token account, mint one token, create metadata account, create master   *)
(* edition; the compiled and the submitted draft keep that order; and      *)
(* every account an instruction writes was created by an earlier one.      *)
(***************************************************************************)
NftOrder ==
  <<"create_account", "initialize_mint", "create", "mint_to",
    "create_metadata_account_v3", "create_master_edition_v3">>

IxNames(ixs) == [k \in 1..Len(ixs) |-> ixs[k].ix]

CreatedBeforeWritten(ixs) ==
  \A k \in 1..Len(ixs) :
    \A a \in NftAccounts(ixs[k]).writes :
      \E j \in 1..(k - 1) : a \in NftAccounts(ixs[j]).creates

C23_NftInstructionOrder ==
  \A i \in Invs :
    (inv[i].op.kind \in NftKinds /\ inv[i].instructions # <<>>) =>
      /\ IxNames(inv[i].instructions) = NftOrder
      /\ CreatedBeforeWritten(inv[i].instructions)
      /\ inv[i].tx # NoTx =>
           inv[i].tx.message.instructions = inv[i].instructions
      /\ \A k \in 1..Len(inv[i].sent) :
           inv[i].sent[k].message.instructions = inv[i].instructions

\* a MINT_NFT for a recipient other than the wallet was composed, compiled,
\* signed and submitted, and the network confirmed it
C23_Witness ==
  /\ inv["i1"].op.kind = "MintNftAction"
  /\ inv["i1"].to # WalletKey
  /\ Len(inv["i1"].instructions) = 6
  /\ Len(inv["i1"].sent) = 1
  /\ inv["i1"].outcome = "Confirmed"

(***************************************************************************)
(* C24: every invocation of MINT_NFT or DEPLOY_COLLECTION generates its    *)
(* own mint keypair: no two invocations, one after another or at the same  *)
(* time, use the same mint identity; the keypair signs the one draft of    *)
(* its invocation and nothing else; and once the invocation has returned   *)
(* neither the invocation slot nor the registry holds the keypair.         *)
(***************************************************************************)
HoldsMintKey(i) == inv[i].op.kind \in NftKinds /\ inv[i].mint_keypair # ""

DraftsOf(i) ==
  {inv[i].tx} \cup { inv[i].sent[k] : k \in 1..Len(inv[i].sent) }

SignedBy(tx, key) ==
  { k \in 1..Len(tx.signatures) : tx.signatures[k].signer = key }

C24_FreshMintKeypair ==
  /\ \A a, b \in 1..Len(mintKeys) : a # b => mintKeys[a] # mintKeys[b]
  /\ \A i, j \in Invs :
       (i # j /\ HoldsMintKey(i) /\ HoldsMintKey(j)) =>
         inv[i].mint_keypair # inv[j].mint_keypair
  /\ \A i \in Invs : HoldsMintKey(i) =>
       /\ inv[i].mint = inv[i].mint_keypair
       /\ \A tx \in DraftsOf(i) :
            /\ Cardinality(SignedBy(tx, inv[i].mint_keypair)) <= 1
            /\ \A k \in SignedBy(tx, inv[i].mint_keypair) :
                 tx.signatures[k].message = inv[i].tx.message
       /\ \A j \in Invs \ {i} : \A tx \in DraftsOf(j) :
            /\ SignedBy(tx, inv[i].mint_keypair) = {}
            /\ inv[i].mint_keypair \notin SignersOf(tx.message.instructions)
  /\ \A i \in Invs : inv[i].pc = "idle" => inv[i].mint_keypair = ""
  /\ \A n \in DOMAIN actions : DOMAIN actions[n] = DOMAIN NoOp

\* two mints run at the same time, each has signed and submitted its own
\* draft with its own mint keypair
C24_Witness ==
  /\ Len(mintKeys) = 2
  /\ HoldsMintKey("i1") /\ HoldsMintKey("i2")
  /\ Len(inv["i1"].sent) = 1 /\ Len(inv["i2"].sent) = 1
  /\ SignedBy(inv["i1"].sent[1], inv["i1"].mint_keypair) # {}
  /\ SignedBy(inv["i2"].sent[1], inv["i2"].mint_keypair) # {}

(***************************************************************************)
(* C25: in Agent::transfer the submission is made only after the           *)
(* instructions were composed, the blockhash fetched, the message compiled *)
(* and the draft signed, in this order and each with success; a TRANSFER   *)
(* that ends without a submission ends with a failure.                     *)
(***************************************************************************)
LastCalls(i, n) ==
  SubSeq(inv[i].calls, Len(inv[i].calls) - n + 1, Len(inv[i].calls))

ReadyToSubmit(i, tx) ==
  /\ inv[i].instructions # <<>>
  /\ inv[i].latest_blockhash \in Blockhashes
  /\ tx.message =
       CompileMessage(WalletKey, inv[i].instructions, inv[i].latest_blockhash)
  /\ tx.signatures = <<Sig(WalletKey, tx.message)>>

C25_SubmitOnlyAfterEveryStep ==
  \A i \in Invs :
    inv[i].op.kind = "TransferAction" =>
      /\ inv[i].pc = "send_and_confirm" =>
           /\ Len(inv[i].calls) >= 2
           /\ LastCalls(i, 2) = <<"get_latest_blockhash", "sign_transaction">>
           /\ ReadyToSubmit(i, inv[i].tx)
      /\ inv[i].sent # <<>> =>
           /\ Len(inv[i].sent) = 1
           /\ Len(inv[i].calls) >= 3
           /\ LastCalls(i, 3) = <<"get_latest_blockhash", "sign_transaction",
                                  "send_and_confirm_transaction">>
           /\ ReadyToSubmit(i, inv[i].sent[1])
      /\ (inv[i].pc = "done" /\ inv[i].sent = <<>>) =>
           inv[i].result.kind = "err"

\* a token TRANSFER composed its instructions and then failed at the
\* blockhash query: it ended with a failure and submitted nothing
C25_Witness ==
  /\ inv["i1"].op.kind = "TransferAction"
  /\ inv["i1"].pc = "done"
  /\ Len(inv["i1"].instructions) = 2
  /\ inv["i1"].calls[Len(inv["i1"].calls)] = "get_latest_blockhash"
  /\ inv["i1"].sent = <<>>
  /\ inv["i1"].result.kind = "err"

(***************************************************************************)
(* C26: after register_all_actions on an empty registry the registry holds *)
(* exactly 61 entries, one for each of the 61 register calls: the k-th     *)
(* call's operation is the entry under its name, so no built-in operation  *)
(* is shadowed by a later one.                                             *)
(***************************************************************************)
C26_SixtyOneDistinctBuiltins ==
  regCount > 0 =>
    /\ regCount = 61
    /\ Len(RegisterAllOrder) = 61
    /\ Cardinality(DOMAIN actions) = 61
    /\ \A k \in 1..Len(RegisterAllOrder) :
         /\ RegisterAllOrder[k].name \in DOMAIN actions
         /\ actions[RegisterAllOrder[k].name] = Registered(RegisterAllOrder[k], k)

\* the registry was filled and the operation of the last register call
\* (number 61) has been looked up by its name
C26_Witness ==
  /\ regCount = 61
  /\ Cardinality(DOMAIN actions) = 61
  /\ \E n \in DOMAIN actions : actions[n].id = 61
  /\ \E i \in Invs : inv[i].op.id > 0

(***************************************************************************)
(* C27: operations are resolved by their exact name only.  The keys of the *)
(* registry are the names of the registered operations and nothing else;   *)
(* get and execute with a string that is no registered name, an alias of a *)
(* registered operation included, find nothing: get returns none and       *)
(* execute fails with "Unknown action" before any operation is called.     *)
(***************************************************************************)
IsAlias(name) ==
  \E n \in DOMAIN actions :
    \E k \in 1..Len(actions[n].similes) : actions[n].similes[k] = name

C27_ExactNameOnly ==
  /\ DOMAIN actions = { regOrder[k] : k \in 1..Len(regOrder) }
  /\ \A n \in DOMAIN actions : actions[n].name = n
  /\ "read" \in DOMAIN metaOut /\ metaOut.read = "get" =>
       IF metaOut.asked \in DOMAIN actions
       THEN metaOut.ops = <<actions[metaOut.asked]>>
       ELSE metaOut.ops = <<>>
  /\ \A i \in Invs :
       inv[i].pc # "idle" =>
         IF inv[i].op = NoOp
         THEN /\ inv[i].pc = "done"
              /\ inv[i].calls = <<>>
              /\ inv[i].result = Err(<<"Unknown action: ", inv[i].name>>)
         ELSE inv[i].op.name = inv[i].name
  /\ \A i \in Invs :
       (inv[i].pc # "idle" /\ inv[i].name \notin DOMAIN actions) =>
         inv[i].op = NoOp

\* TRANSFER is registered with the alias "send sol", and an execute of
\* "send sol" ended as an unknown name
C27_Witness ==
  /\ "TRANSFER" \in DOMAIN actions
  /\ IsAlias("send sol")
  /\ inv["i1"].name = "send sol"
  /\ inv["i1"].pc = "done"
  /\ inv["i1"].result = Err(<<"Unknown action: ", "send sol">>)

(***************************************************************************)
(* C28: the cast of the scaled amount to u64 in Agent::transfer saturates. *)
(* A negative or not-a-number amount gives 0 and the transfer fails as too *)
(* small with nothing composed or submitted; a scaled value of 2^64 or     *)
(* more gives 2^64 - 1, never the value reduced modulo 2^64; a scaled      *)
(* value below 2^64 is never changed to 2^64 - 1 or beyond.                *)
(***************************************************************************)
Scaled(i) == F64MulPow10(inv[i].amount, inv[i].decimals)

AtLeastTwoTo64(f) ==
  /\ ~f.neg
  /\ \/ f.cls = "inf"
     \/ f.cls = "fin" /\ BigBitLen(f.m) + f.e > 64

C28_CastSaturates ==
  \A i \in Invs :
    inv[i].pc \in {"scaled", "done"} =>
      /\ (inv[i].amount.cls = "nan" \/ inv[i].amount.neg) =>
           /\ inv[i].pc = "done"
           /\ inv[i].result = Err(TooSmall)
           /\ inv[i].base_units = <<>>
           /\ inv[i].instructions = <<>> /\ inv[i].sent = <<>>
      /\ AtLeastTwoTo64(Scaled(i)) =>
           inv[i].pc = "scaled" /\ inv[i].base_units = U64Max
      /\ inv[i].pc = "scaled" =>
           /\ BigLe(inv[i].base_units, U64Max)
           /\ inv[i].base_units = U64Max => AtLeastTwoTo64(Scaled(i))

\* 1e11 scaled by 10^9 is 1e20, above 2^64, and was cast
C28_Witness ==
  /\ inv["i1"].pc = "scaled"
  /\ inv["i1"].amount = Amt_1e11
  /\ inv["i1"].decimals = 9
  /\ inv["i1"].base_units = U64Max

(***************************************************************************)
(* C29: Agent::get_balance with a token mint never fails.  BALANCE_ACTION  *)
(* with a valid tokenAddress always returns a value with status "success", *)
(* and when the token balance query failed the balance in it is 0; with no *)
(* tokenAddress a failed balance query ends the call with a failure.       *)
(***************************************************************************)
BalanceAsked(i) ==
  /\ inv[i].op.kind = "GetBalanceAction"
  /\ inv[i].pc = "done"
  /\ QueryInputParses("GetBalanceAction", inv[i].input)

C29_TokenBalanceNeverFails ==
  \A i \in Invs :
    BalanceAsked(i) =>
      IF BalanceHasMint(inv[i].input)
      THEN PubkeyFromStr(inv[i].input.tokenAddress.str).ok =>
             /\ inv[i].calls = <<"get_token_account_balance">>
             /\ inv[i].result.kind = "ok"
             /\ inv[i].result.value["status"] = JStr("success")
             /\ inv[i].rpc_failed =>
                  inv[i].result.value["balance"] = JNum(F64Zero)
      ELSE /\ inv[i].calls = <<"get_balance">>
           /\ inv[i].rpc_failed <=> inv[i].result.kind = "err"

\* a BALANCE_ACTION with a valid tokenAddress whose balance query failed has
\* returned success with balance 0
C29_Witness ==
  /\ BalanceAsked("i1")
  /\ BalanceHasMint(inv["i1"].input)
  /\ inv["i1"].rpc_failed
  /\ inv["i1"].result.kind = "ok"
  /\ inv["i1"].result.value["balance"] = JNum(F64Zero)

(***************************************************************************)
(* C30: LIST_NFT_FOR_SALE, CANCEL_NFT_LISTING, SWAP_ON_RAYDIUM and         *)
(* LULO_LEND never call the network client or the signer and never compose *)
(* or submit a transaction; for an input with the required fields they     *)
(* return a value whose status is "info" ("error" for LULO_LEND), never    *)
(* "success"; and none of their steps changes the ledger.                  *)
(***************************************************************************)
IsPlaceholder(i) == inv[i].op.kind \in PlaceholderKinds

PlaceholderTouchesNothing(i) ==
  /\ inv[i].calls = <<>>
  /\ inv[i].instructions = <<>>
  /\ inv[i].tx = NoTx
  /\ inv[i].sent = <<>>

PlaceholderAnswer(i) ==
  (inv[i].pc = "done"
     /\ PlaceholderInputParses(inv[i].op.kind, inv[i].input)) =>
    /\ inv[i].result.kind = "ok"
    /\ inv[i].result.value["status"] =
         JStr(IF inv[i].op.kind = "LuloLendAction" THEN "error" ELSE "info")
    /\ inv[i].result.value["status"] # JStr("success")

C30_PlaceholdersOnlyAnswer ==
  /\ [](\A i \in Invs :
          IsPlaceholder(i) => PlaceholderTouchesNothing(i) /\ PlaceholderAnswer(i))
  /\ [][\A i \in Invs :
          (IsPlaceholder(i) \/ IsPlaceholder(i)') => tokenAccounts' = tokenAccounts]_vars

\* LULO_LEND was given its required fields and returned its error value,
\* on a ledger that holds token accounts
C30_Witness ==
  /\ inv["i1"].op.kind = "LuloLendAction"
  /\ inv["i1"].pc = "done"
  /\ PlaceholderInputParses("LuloLendAction", inv["i1"].input)
  /\ inv["i1"].result.value["status"] = JStr("error")
  /\ tokenAccounts # {}
====
